---- MODULE Spec2Model ----
(***************************************************************************)
(* Model of the Verific front end of yosys, frontends/verific/verific.cc:  *)
(* the importer (VerificImporter: net_map_at, the operator helpers, the     *)
(* gate-level and cell-level translators, import_netlist with its phases)   *)
(* and the external-net resolver (VerificExtNets).                          *)
(*                                                                          *)
(* The Verific data base is the variable db: netlist name -> netlist       *)
(* record (ports, port buses, nets, net buses, instances).  Nets, ports     *)
(* and instances are referred to by name; NULL is the null pointer.  An    *)
(* instance's connections are a function from a port key <<role, index>>    *)
(* to a net name: GetInput1() is key <<"input1", 0>>, GetInput1Bit(i) is    *)
(* key <<"input1", i>>, and so on.                                          *)
(***************************************************************************)
EXTENDS Integers, Sequences, FiniteSets, TLC

\* ---------------------------------------------------------------- bounds
\* widest RAM-backing net of the general memory family (bits)
MaxRamBits == 4
\* widest access port of the general memory family (bits)
MaxPortWidth == 3
\* most access-port instances attached to the RAM net
MaxAccessPorts == 2
\* longest bit string after the radix marker of an initial value
MaxInitLen == 3
\* the largest width of a word-level operand
MaxOperand == 2
\* most single ports of a netlist
MaxPorts == 2
\* most instances of one netlist in its parent
MaxSites == 2
\* most instances of the top netlist of the work-loop family
MaxInsts == 2
\* most input ports and most AND primitives of the AND family
MaxAndInputs == 2
MaxAnds == 2
\* most net buses of the netlist of the free-net family
MaxNetBuses == 2

\* ---------------------------------------------------------------- helpers
NULL == "NULL"

Min(a, b) == IF a < b THEN a ELSE b

Range(s) == {s[i] : i \in DOMAIN s}

EmptyFcn == <<>>

RECURSIVE SeqsUpTo(_, _)
\* all sequences over S of length 0..n
SeqsUpTo(S, n) ==
    IF n = 0 THEN {<<>>}
    ELSE LET shorter == SeqsUpTo(S, n - 1)
         IN  shorter \cup {Append(s, e) : s \in {t \in shorter : Len(t) = n - 1}, e \in S}

\* ---------------------------------------------------------------- RTLIL values
\* RTLIL::SigBit: a wire bit or a constant state
WireBit(w, o) == [wire |-> w, offset |-> o, data |-> "-"]
ConstBit(s) == [wire |-> "", offset |-> 0, data |-> s]
NoBit == ConstBit("none")

\* RTLIL::Wire as created by Module::addWire(name, width)
Wire(name, width) ==
    [name |-> name, width |-> width, port_input |-> FALSE, port_output |-> FALSE,
     port_id |-> 0, start_offset |-> 0, init |-> <<>>]

\* RTLIL::escape_id: a user name gets a leading backslash
escape_id(name) == "\\" \o name

\* NEW_ID: a fresh automatic name built from the global counter autoidx
AutoName(k) == "$auto$" \o ToString(k)

\* ---------------------------------------------------------------- Verific objects
\* a Net of a netlist, with the attributes import_netlist reads
Net(name) ==
    [name |-> name, isRam |-> FALSE, size |-> 1,
     has_wide_init |-> FALSE, wide_init |-> <<>>, left |-> 0, right |-> 0,
     bus |-> NULL, initial |-> NULL, rand_const |-> NULL, rand |-> NULL,
     isGnd |-> FALSE, isPwr |-> FALSE]

\* an Instance: type tag, view (the instantiated netlist), port connections,
\* the sizes of its operand buses and the sizes of the named port buses of its
\* view (View()->GetPortBus)
Inst(name, type, view, conn) ==
    [name |-> name, type |-> type, view |-> view, conn |-> conn,
     insize |-> 0, in1size |-> 0, in2size |-> 0, outsize |-> 0, signed |-> FALSE,
     buses |-> EmptyFcn]

\* a Netlist
Netlist(ports, portbuses, nets, netbuses, insts) ==
    [ports |-> ports, portbuses |-> portbuses, nets |-> nets, netbuses |-> netbuses,
     insts |-> insts, isOperator |-> FALSE, isBlackBox |-> FALSE, owner |-> NULL]

PrimTypes ==
    {"PRIM_AND", "PRIM_NAND", "PRIM_OR", "PRIM_NOR", "PRIM_XOR", "PRIM_XNOR", "PRIM_BUF",
     "PRIM_INV", "PRIM_MUX", "PRIM_TRI", "PRIM_FADD", "PRIM_DFFRS", "PRIM_DLATCHRS",
     "PRIM_PWR", "PRIM_GND", "PRIM_X", "PRIM_Z", "PRIM_SVA_POSEDGE", "PRIM_SVA_AT",
     "PRIM_SVA_ASSERT", "PRIM_SVA_ASSUME", "PRIM_SVA_COVER", "PRIM_HDL_ASSERTION"}

OperTypes ==
    {"OPER_ADDER", "OPER_MULTIPLIER", "OPER_SHIFT_LEFT", "OPER_SHIFT_RIGHT", "OPER_LESSTHAN",
     "OPER_WIDE_DFFRS", "OPER_READ_PORT", "OPER_WRITE_PORT", "OPER_CLOCKED_WRITE_PORT",
     "OPER_NTO1MUX"}

IsPrimitive(inst) == inst.type \in PrimTypes
IsOperator(inst) == inst.type \in OperTypes

\* the net on port <<role, i>> of an instance, NULL when unconnected
Pin(inst, role, i) ==
    IF <<role, i>> \in DOMAIN inst.conn THEN inst.conn[<<role, i>>] ELSE NULL

GetInput(inst) == Pin(inst, "input", 0)
GetInput1(inst) == Pin(inst, "input1", 0)
GetInput2(inst) == Pin(inst, "input2", 0)
GetOutput(inst) == Pin(inst, "output", 0)
GetControl(inst) == Pin(inst, "control", 0)
GetClock(inst) == Pin(inst, "clock", 0)
GetSet(inst) == Pin(inst, "set", 0)
GetReset(inst) == Pin(inst, "reset", 0)
GetCin(inst) == Pin(inst, "cin", 0)
GetCout(inst) == Pin(inst, "cout", 0)
GetInputBit(inst, i) == Pin(inst, "input", i)
GetInput1Bit(inst, i) == Pin(inst, "input1", i)
GetInput2Bit(inst, i) == Pin(inst, "input2", i)
GetOutputBit(inst, i) == Pin(inst, "output", i)

\* ---------------------------------------------------------------- state
VARIABLES
    db,               \* the Verific data base: netlist name -> Netlist
    netlist,          \* VerificImporter::netlist, the netlist under import
    net_map,          \* VerificImporter::net_map: net name -> SigBit
    sva_posedge_map,  \* VerificImporter::sva_posedge_map: net name -> net name
    module,           \* VerificImporter::module: the RTLIL module being built
    design,           \* RTLIL::Design: the names of the modules it holds
    nl_todo,          \* the work set of netlists still to import
    mode_gates,       \* -gates
    mode_keep,        \* -k
    init_nets,        \* import_netlist's init_nets: net name -> '0' / '1'
    anyconst_nets,    \* import_netlist's anyconst_nets
    anyseq_nets,      \* import_netlist's anyseq_nets
    autoidx,          \* the global counter behind NEW_ID
    pc,               \* the importer's / resolver's position
    idx,              \* position of the running FOREACH loop of import_netlist
    err,              \* "none", or the fatal error that aborted the run
    portname_cnt,     \* VerificExtNets::portname_cnt
    net_level_up,     \* VerificExtNets::net_level_up: net name -> net name
    stack,            \* the call stack of VerificExtNets::run
    nl_done,          \* VerificPass::execute's nl_done: the netlists imported
    db0,              \* the data base as it was loaded, before the resolver ran
    modules,          \* RTLIL::Design::modules_: the modules of earlier imports
    calls,            \* the netlists import_netlist was called for, in order
    warnings,         \* the log_warning messages of the importer, in order
    inserted          \* the netlists put into nl_todo, one entry per insert()

importerVars ==
    <<netlist, net_map, sva_posedge_map, module, design, nl_todo, mode_gates, mode_keep,
      init_nets, anyconst_nets, anyseq_nets, autoidx, idx, err>>

\* the state of VerificPass::execute outside the importer
passVars == <<portname_cnt, net_level_up, stack, nl_done, db0, modules, calls>>

\* what the instance loop of import_netlist leaves behind beside the module
instVars == <<warnings, inserted>>

vars == <<db, pc, importerVars, passVars, instVars>>

\* RTLIL::Module, empty as after `new RTLIL::Module`
EmptyModule ==
    [name |-> "", wires |-> <<>>, cells |-> <<>>, conns |-> <<>>, memories |-> EmptyFcn,
     blackbox |-> FALSE]

NetNames(nl) == {nl.nets[i].name : i \in DOMAIN nl.nets}

\* Net::Owner(): the netlist that holds the net, in data base d
OwnerIn(d, net) == CHOOSE n \in DOMAIN d : net \in NetNames(d[n])
Owner(net) == OwnerIn(db, net)

\* Net::IsExternalTo(nl): the net is not a net of nl, in data base d
IsExternalIn(d, net, nl) == net \notin NetNames(d[nl])
IsExternalTo(net, nl) == IsExternalIn(db, net, nl)

\* the Net object of a name
NetOf(net) ==
    LET nl == db[Owner(net)]
    IN  nl.nets[CHOOSE i \in DOMAIN nl.nets : nl.nets[i].name = net]

IsGnd(net) == NetOf(net).isGnd
IsPwr(net) == NetOf(net).isPwr

\* ---------------------------------------------------------------- Signal Mapper
\* net_map_at as the bare map lookup, the ownership check left out
net_map_at_NoCheck(nm, net) ==
    IF net \in DOMAIN nm
    THEN [err |-> "none", bit |-> nm[net]]
    ELSE [err |-> "out_of_range", bit |-> NoBit]

\* VerificImporter::net_map_at (lines 110-117): the external-reference check comes
\* first; std::map::at throws for a net of this netlist that has no entry
\* (std::out_of_range).  nm is the importer's net_map at the time of the call.
net_map_at(nm, net) ==
    IF IsExternalTo(net, netlist)
    THEN [err |-> "external_reference", bit |-> NoBit]
    ELSE IF net \in DOMAIN nm
         THEN [err |-> "none", bit |-> nm[net]]
         ELSE [err |-> "out_of_range", bit |-> NoBit]

\* the first error of a sequence of results, "none" when there is none
RECURSIVE FirstErr(_)
FirstErr(rs) ==
    IF rs = <<>> THEN "none"
    ELSE IF Head(rs).err # "none" THEN Head(rs).err ELSE FirstErr(Tail(rs))

\* a SigSpec of one bit resolved through net_map_at
SigOf(net) ==
    [err |-> net_map_at(net_map, net).err, sig |-> <<net_map_at(net_map, net).bit>>]

RECURSIVE OperandBits(_, _, _)
\* the loop shared by operatorInput, operatorInput1 and operatorInput2: i runs
\* from size-1 down to 0 and every bit is appended, so bit 0 ends up last (the
\* most significant position of the SigSpec); an unconnected bit is Sz
OperandBits(inst, role, i) ==
    IF i < 0 THEN [err |-> "none", sig |-> <<>>]
    ELSE LET net == Pin(inst, role, i)
             r == IF net # NULL THEN net_map_at(net_map, net) ELSE [err |-> "none", bit |-> ConstBit("Sz")]
             rest == OperandBits(inst, role, i - 1)
         IN  [err |-> IF r.err # "none" THEN r.err ELSE rest.err,
              sig |-> <<r.bit>> \o rest.sig]

\* VerificImporter::operatorInput (lines 132-141)
operatorInput(inst) == OperandBits(inst, "input", inst.insize - 1)

\* VerificImporter::operatorInput1 (lines 143-152)
operatorInput1(inst) == OperandBits(inst, "input1", inst.in1size - 1)

\* VerificImporter::operatorInput2 (lines 154-163)
operatorInput2(inst) == OperandBits(inst, "input2", inst.in2size - 1)

RECURSIVE InportBits(_, _, _)
\* the loop of operatorInport (lines 170-181): i runs from 0 to Size()-1 and every
\* bit is appended; a ground net gives constant 0, a power net constant 1, any
\* other net its net_map_at bit, an unconnected bit Sz
InportBits(inst, portname, i) ==
    IF i >= inst.buses[portname] THEN [err |-> "none", sig |-> <<>>]
    ELSE LET net == Pin(inst, portname, i)
             r == IF net = NULL THEN [err |-> "none", bit |-> ConstBit("Sz")]
                  ELSE IF IsGnd(net) THEN [err |-> "none", bit |-> ConstBit("S0")]
                  ELSE IF IsPwr(net) THEN [err |-> "none", bit |-> ConstBit("S1")]
                  ELSE net_map_at(net_map, net)
             rest == InportBits(inst, portname, i + 1)
         IN  [err |-> IF r.err # "none" THEN r.err ELSE rest.err,
              sig |-> <<r.bit>> \o rest.sig]

\* VerificImporter::operatorInport (lines 165-189): the port bus of that name
\* bit by bit, or, when the view has no such bus, the net on the port of that name
operatorInport(inst, portname) ==
    IF portname \in DOMAIN inst.buses THEN InportBits(inst, portname, 0)
    ELSE IF Pin(inst, portname, 0) = NULL THEN [err |-> "log_assert", sig |-> <<>>]
    ELSE SigOf(Pin(inst, portname, 0))

\* RTLIL::SigSpec::is_fully_const and as_bool as line 559 uses them: no bit is
\* on a wire; some bit is the constant 1
is_fully_const(sig) == \A i \in DOMAIN sig : sig[i].wire = ""
as_bool(sig) == \E i \in DOMAIN sig : sig[i].data = "S1"

\* dummy_wire == NULL
NoDummy == [name |-> NULL, width |-> 0]

RECURSIVE OutputBits(_, _, _, _)
\* VerificImporter::operatorOutput's loop (lines 195-205): dummy is the dummy
\* wire in use (NoDummy when none), made with NEW_ID and widened for every further
\* unconnected bit of the same run; k counts the NEW_IDs taken so far
OutputBits(inst, i, dummy, k) ==
    IF i < 0 THEN [err |-> "none", sig |-> <<>>, nauto |-> k]
    ELSE LET net == GetOutputBit(inst, i)
         IN  IF net # NULL
             THEN LET r == net_map_at(net_map, net)
                      rest == OutputBits(inst, i - 1, NoDummy, k)
                  IN  [err |-> IF r.err # "none" THEN r.err ELSE rest.err,
                       sig |-> <<r.bit>> \o rest.sig, nauto |-> rest.nauto]
             ELSE IF dummy = NoDummy
                  THEN LET w == [name |-> AutoName(autoidx + k), width |-> 1]
                           rest == OutputBits(inst, i - 1, w, k + 1)
                       IN  [err |-> rest.err, sig |-> <<WireBit(w.name, 0)>> \o rest.sig,
                            nauto |-> rest.nauto]
                  ELSE LET w == [name |-> dummy.name, width |-> dummy.width + 1]
                           rest == OutputBits(inst, i - 1, w, k)
                       IN  [err |-> rest.err,
                            sig |-> <<WireBit(w.name, w.width - 1)>> \o rest.sig,
                            nauto |-> rest.nauto]

\* the dummy wires an output SigSpec was given, in the order of their creation,
\* each as wide as the run of unconnected bits it stands for
DummyWires(out) ==
    [k \in 1..out.nauto |->
        Wire(AutoName(autoidx + k - 1),
             Cardinality({i \in DOMAIN out.sig : out.sig[i].wire = AutoName(autoidx + k - 1)}))]

\* VerificImporter::operatorOutput (lines 191-207)
operatorOutput(inst) == OutputBits(inst, inst.outsize - 1, NoDummy, 0)

\* ---------------------------------------------------------------- Memory Inference
\* FOREACH_PORTREF_OF_NET(net): the instances of the netlist with a port on net
PortRefInsts(nl, net) ==
    SelectSeq(nl.insts, LAMBDA i : \E k \in DOMAIN i.conn : i.conn[k] = net)

RECURSIVE BitsInWord(_, _)
\* the loop of lines 683-694 over the instances attached to a RAM net: acc is
\* bits_in_word, which starts at the net's size
BitsInWord(prs, acc) ==
    IF prs = <<>> THEN [err |-> "none", bits |-> acc]
    ELSE LET inst == Head(prs)
         IN  IF inst.type = "OPER_READ_PORT"
             THEN BitsInWord(Tail(prs), Min(acc, inst.outsize))
             ELSE IF inst.type \in {"OPER_WRITE_PORT", "OPER_CLOCKED_WRITE_PORT"}
                  THEN BitsInWord(Tail(prs), Min(acc, inst.in2size))
                  ELSE [err |-> "unsupported_ram_instance", bits |-> acc]

\* memory->width (line 696)
MemoryWidth(bits_in_word) == bits_in_word

\* memory->size as a division that rounds up
MemorySize_RoundUp(number_of_bits, bits_in_word) ==
    (number_of_bits + bits_in_word - 1) \div bits_in_word

\* memory->size (line 697): int division
MemorySize(number_of_bits, bits_in_word) == number_of_bits \div bits_in_word

RECURSIVE SkipToQuote(_, _)
\* lines 701-702: advance to the first ' or to the end of the string
SkipToQuote(s, p) ==
    IF p <= Len(s) /\ s[p] # "'" THEN SkipToQuote(s, p + 1) ELSE p

\* lines 701-708: the position of the first data character; ok is the outcome
\* of log_assert(*ascii_initdata == 'b'); p > Len(s) is the terminating NUL
SkipMarker(s) ==
    LET p1 == SkipToQuote(s, 1)
        p2 == IF p1 <= Len(s) /\ s[p1] = "'" THEN p1 + 1 ELSE p1
    IN  IF p2 <= Len(s)
        THEN [p |-> p2 + 1, ok |-> s[p2] = "b"]
        ELSE [p |-> p2, ok |-> TRUE]

RECURSIVE DecodeWord(_, _, _, _, _)
\* the inner loop of lines 712-720 for one word: bit_idx runs from width-1 down,
\* one character per bit; initval[bit_idx + 1] is bit bit_idx of the Const
DecodeWord(s, p, bit_idx, initval, valid) ==
    IF bit_idx < 0 \/ p > Len(s) THEN [p |-> p, initval |-> initval, valid |-> valid]
    ELSE IF s[p] \in {"0", "1"}
         THEN DecodeWord(s, p + 1, bit_idx - 1,
                         [initval EXCEPT ![bit_idx + 1] = IF s[p] = "0" THEN "S0" ELSE "S1"],
                         TRUE)
         ELSE DecodeWord(s, p + 1, bit_idx - 1, initval, valid)

\* the address of a word with the index direction left out
MeminitAddr_Forward(net, size, word_idx) == word_idx

\* the address of word word_idx (lines 724-727)
MeminitAddr(net, size, word_idx) ==
    IF net.left < net.right THEN word_idx ELSE size - word_idx - 1

RECURSIVE DecodeWords(_, _, _, _, _, _)
\* the loop of lines 709-734: the $meminit cells of words word_idx..size-1, k
\* NEW_IDs having been taken before
DecodeWords(net, p, word_idx, width, size, k) ==
    IF word_idx >= size THEN <<>>
    ELSE LET w == DecodeWord(net.wide_init, p, width - 1, [i \in 1..width |-> "Sx"], FALSE)
         IN  IF w.valid
             THEN <<[name |-> AutoName(autoidx + k), type |-> "$meminit",
                     params |-> [WORDS |-> 1, MEMID |-> escape_id(net.name), ABITS |-> 32,
                                 WIDTH |-> width, PRIORITY |-> autoidx + k],
                     ports |-> [ADDR |-> MeminitAddr(net, size, word_idx),
                                DATA |-> w.initval]]>>
                  \o DecodeWords(net, w.p, word_idx + 1, width, size, k + 1)
             ELSE DecodeWords(net, w.p, word_idx + 1, width, size, k)

\* Module::count_id: the name is taken by a wire, a cell or a memory
CountId(name) ==
    \/ \E i \in DOMAIN module.wires : module.wires[i].name = name
    \/ \E i \in DOMAIN module.cells : module.cells[i].name = name
    \/ name \in DOMAIN module.memories

\* the RamNet branch of the nets loop (lines 674-737) for one net
ImportRamNet(net) ==
    LET w == BitsInWord(PortRefInsts(db[netlist], net.name), net.size)
        width == MemoryWidth(w.bits)
        size == MemorySize(net.size, w.bits)
        m == IF net.has_wide_init THEN SkipMarker(net.wide_init) ELSE [p |-> 1, ok |-> TRUE]
        cells == IF net.has_wide_init THEN DecodeWords(net, m.p, 0, width, size, 0) ELSE <<>>
    IN  [err |-> IF CountId(escape_id(net.name)) THEN "log_assert"
                 ELSE IF w.err # "none" THEN w.err
                 ELSE IF ~m.ok THEN "log_assert" ELSE "none",
         memory |-> [width |-> width, size |-> size],
         cells |-> cells]

\* ---------------------------------------------------------------- Hierarchical Importer
\* the phases with the instances translated before the free drivers of the
\* stand-alone nets are made (the mutation of Phases)
Phases_InstsEarly ==
    <<"begin", "ports", "portbuses", "nets", "netbuses", "init_nets", "insts",
      "free_drivers", "posedge", "done">>

\* the phases of import_netlist in the order of the code; the FOREACH loops run
\* one element per step, at position idx
Phases ==
    <<"begin", "ports", "portbuses", "nets", "netbuses", "init_nets", "free_drivers",
      "posedge", "insts", "done">>

\* the collection a FOREACH phase walks over
LoopOf(nl, p) ==
    CASE p = "ports" -> nl.ports
      [] p = "portbuses" -> nl.portbuses
      [] p = "nets" -> nl.nets
      [] p = "netbuses" -> nl.netbuses
      [] p = "insts" -> nl.insts
      [] OTHER -> <<0>>

RECURSIVE PhaseFrom(_, _)
\* the first phase at or after position k that has something to do: a FOREACH
\* over an empty collection is passed over
PhaseFrom(nl, k) ==
    IF LoopOf(nl, Phases[k]) = <<>> THEN PhaseFrom(nl, k + 1) ELSE Phases[k]

\* the phase that follows phase p
PhaseAfter(nl, p) == PhaseFrom(nl, 1 + CHOOSE k \in DOMAIN Phases : Phases[k] = p)

\* the position after element idx of phase p: the next element, or the next phase
Advance(p) ==
    IF idx < Len(LoopOf(db[netlist], p))
    THEN pc' = p /\ idx' = idx + 1
    ELSE pc' = PhaseAfter(db[netlist], p) /\ idx' = 1

\* log_error / log_cmd_error / a failed log_assert / an uncaught exception: the
\* run is aborted (kernel/log.h lines 42-43: noreturn) where it stands, and err
\* names the error
Abort(e) == err' = e /\ UNCHANGED <<pc, idx>>

\* the importer is at phase p and no fatal error has ended the run
Running(p) == pc = p /\ err = "none"

\* Netlist::Owner()->Name(): the name of the cell netlist n is a view of. A
\* netlist without an owner field of its own is the one view of the cell that
\* has its name; a netlist the data base does not hold is named by its key
OwnerName(n) ==
    IF n \in DOMAIN db /\ db[n].owner # NULL THEN db[n].owner ELSE n

\* the module name with the netlist itself as the name (the mutation of
\* ModuleName)
ModuleName_PerNetlist(n) == IF db[n].isOperator THEN "$verific$" \o n ELSE escape_id(n)

\* the name import_netlist gives the module of netlist n (line 577)
ModuleName(n) ==
    IF db[n].isOperator THEN "$verific$" \o OwnerName(n) ELSE escape_id(OwnerName(n))

\* the memo check that returns for every module name the design has, without
\* the re-definition error (the mutation of ImportBegin)
ImportBegin_SilentReturn ==
    /\ Running("begin")
    /\ IF ModuleName(netlist) \in design
       THEN /\ pc' = "returned" /\ err' = err /\ idx' = idx
            /\ UNCHANGED <<module, design>>
       ELSE /\ module' = [EmptyModule EXCEPT !.name = ModuleName(netlist),
                                             !.blackbox = db[netlist].isBlackBox]
            /\ design' = design \cup {ModuleName(netlist)}
            /\ pc' = PhaseAfter(db[netlist], "begin") /\ idx' = 1 /\ err' = err
    /\ UNCHANGED <<db, netlist, net_map, sva_posedge_map, nl_todo, mode_gates, mode_keep,
                   init_nets, anyconst_nets, anyseq_nets, autoidx, passVars, instVars>>

\* import_netlist, lines 577-596: memo check and module creation
ImportBegin ==
    /\ Running("begin")
    /\ IF ModuleName(netlist) \in design
       THEN /\ IF ~db[netlist].isOperator
               THEN Abort("redefinition")
               ELSE pc' = "returned" /\ err' = err /\ idx' = idx
            /\ UNCHANGED <<module, design>>
       ELSE /\ module' = [EmptyModule EXCEPT !.name = ModuleName(netlist),
                                             !.blackbox = db[netlist].isBlackBox]
            /\ design' = design \cup {ModuleName(netlist)}
            /\ pc' = PhaseAfter(db[netlist], "begin") /\ idx' = 1 /\ err' = err
    /\ UNCHANGED <<db, netlist, net_map, sva_posedge_map, nl_todo, mode_gates, mode_keep,
                   init_nets, anyconst_nets, anyseq_nets, autoidx, passVars, instVars>>

\* a port wire's direction flags (lines 620-623 and 645-648)
PortInput(dir) == dir \in {"DIR_INOUT", "DIR_IN"}
PortOutput(dir) == dir \in {"DIR_INOUT", "DIR_OUT"}

\* a port bit meets its net and takes the net's entry, mapped or not
MapOrConnectPort_Overwrite(nm, net, bit, port_input) ==
    [err |-> "none", net_map |-> (net :> bit) @@ nm, conns |-> <<>>]

\* a port bit that meets a mapped net is connected as an output, whatever the
\* direction of the port (a mutation of MapOrConnectPort)
MapOrConnectPort_AsOutput(nm, net, bit, port_input) ==
    IF net \notin DOMAIN nm
    THEN [err |-> "none", net_map |-> (net :> bit) @@ nm, conns |-> <<>>]
    ELSE LET r == net_map_at(nm, net)
         IN  [err |-> r.err, net_map |-> nm,
              conns |-> <<[lhs |-> <<bit>>, rhs |-> <<r.bit>>]>>]

\* lines 627-632 / 654-659: a port bit meets its net. An unmapped net is mapped
\* to the bit; a mapped one is connected, the port bit driving it if the port is
\* an input, driven by it otherwise. module->connect(lhs, rhs): rhs drives lhs
MapOrConnectPort(nm, net, bit, port_input) ==
    IF net \notin DOMAIN nm
    THEN [err |-> "none", net_map |-> (net :> bit) @@ nm, conns |-> <<>>]
    ELSE LET r == net_map_at(nm, net)
         IN  [err |-> r.err, net_map |-> nm,
              conns |-> IF port_input THEN <<[lhs |-> <<r.bit>>, rhs |-> <<bit>>]>>
                        ELSE <<[lhs |-> <<bit>>, rhs |-> <<r.bit>>]>>]

\* FOREACH_PORT_OF_NETLIST, lines 607-634, for the port at position idx
ImportPort ==
    /\ Running("ports")
    /\ LET port == db[netlist].ports[idx]
           wire == [Wire(escape_id(port.name), 1) EXCEPT
                        !.port_id = idx,
                        !.port_input = PortInput(port.dir),
                        !.port_output = PortOutput(port.dir)]
           r == MapOrConnectPort(net_map, port.net, WireBit(wire.name, 0), wire.port_input)
       IN  IF port.bus
           THEN Advance("ports") /\ UNCHANGED <<module, net_map, err>>
           ELSE IF port.net = NULL
           THEN /\ module' = [module EXCEPT !.wires = Append(@, wire)]
                /\ Advance("ports") /\ UNCHANGED <<net_map, err>>
           ELSE IF r.err # "none"
           THEN Abort(r.err) /\ UNCHANGED <<module, net_map>>
           ELSE /\ module' = [module EXCEPT !.wires = Append(@, wire),
                                            !.conns = @ \o r.conns]
                /\ net_map' = r.net_map
                /\ Advance("ports") /\ err' = err
    /\ UNCHANGED <<db, netlist, sva_posedge_map, design, nl_todo, mode_gates, mode_keep,
                   init_nets, anyconst_nets, anyseq_nets, autoidx, passVars, instVars>>

\* PortBus / NetBus: Size(), IsUp() and the indices from one end to the other
BusSize(bus) == IF bus.left < bus.right THEN bus.right - bus.left + 1
                ELSE bus.left - bus.right + 1
IsUp(bus) == bus.left < bus.right
BusIndices(from, to) ==
    [k \in 1..(IF from < to THEN to - from + 1 ELSE from - to + 1) |->
        IF from < to THEN from + (k - 1) ELSE from - (k - 1)]

RECURSIVE PortBusBits(_, _, _, _, _)
\* the loop of lines 650-663 over the indices is of a port bus
PortBusBits(bus, wire, is, nm, conns) ==
    IF is = <<>> THEN [err |-> "none", net_map |-> nm, conns |-> conns]
    ELSE LET net == bus.elems[Head(is)]
             bit == WireBit(wire.name, Head(is) - wire.start_offset)
             r == MapOrConnectPort(nm, net, bit, wire.port_input)
         IN  IF net = NULL THEN PortBusBits(bus, wire, Tail(is), nm, conns)
             ELSE IF r.err # "none" THEN [err |-> r.err, net_map |-> nm, conns |-> conns]
             ELSE PortBusBits(bus, wire, Tail(is), r.net_map, conns \o r.conns)

\* FOREACH_PORTBUS_OF_NETLIST, lines 636-664, for the port bus at position idx
ImportPortBus ==
    /\ Running("portbuses")
    /\ LET bus == db[netlist].portbuses[idx]
           wire == [Wire(escape_id(bus.name), BusSize(bus)) EXCEPT
                        !.start_offset = Min(bus.left, bus.right),
                        !.port_input = PortInput(bus.dir),
                        !.port_output = PortOutput(bus.dir)]
           r == PortBusBits(bus, wire, BusIndices(bus.left, bus.right), net_map, <<>>)
       IN  IF r.err # "none"
           THEN Abort(r.err) /\ UNCHANGED <<module, net_map>>
           ELSE /\ module' = [module EXCEPT !.wires = Append(@, wire),
                                            !.conns = @ \o r.conns]
                /\ net_map' = r.net_map
                /\ Advance("portbuses") /\ err' = err
    /\ UNCHANGED <<db, netlist, sva_posedge_map, design, nl_todo, mode_gates, mode_keep,
                   init_nets, anyconst_nets, anyseq_nets, autoidx, passVars, instVars>>

\* Module::uniquify: the name itself when free, else the first free name_<k>
Uniquify(name) ==
    IF ~CountId(name) THEN name
    ELSE LET taken(k) == CountId(name \o "_" \o ToString(k))
             k == CHOOSE j \in 0..(Len(module.wires) + Len(module.cells) + 1) :
                      ~taken(j) /\ \A h \in 0..(j - 1) : taken(h)
         IN  name \o "_" \o ToString(k)

\* FOREACH_NET_OF_NETLIST, lines 672-768, for the net at position idx
\* only the member of a bus is passed over (the mutation of SkipNet)
SkipNet_BusOnly(nm, net) == net.bus # NULL

\* lines 751-758: the nets phase makes no wire for a net that is mapped already
\* or is a member of a bus
SkipNet(nm, net) == net.name \in DOMAIN nm \/ net.bus # NULL

ImportNet ==
    /\ Running("nets")
    /\ LET net == db[netlist].nets[idx]
           ram == ImportRamNet(net)
           wire == Wire(Uniquify(escape_id(net.name)), 1)
       IN  IF net.isRam
           THEN /\ IF ram.err # "none"
                   THEN Abort(ram.err) /\ UNCHANGED <<module, autoidx>>
                   ELSE /\ module' = [module EXCEPT
                                !.memories = (escape_id(net.name) :> ram.memory) @@ @,
                                !.cells = @ \o ram.cells]
                        /\ autoidx' = autoidx + Len(ram.cells)
                        /\ Advance("nets") /\ err' = err
                /\ UNCHANGED <<net_map, init_nets, anyconst_nets, anyseq_nets>>
           ELSE /\ init_nets' = IF net.initial # NULL
                                THEN (net.name :> net.initial) @@ init_nets ELSE init_nets
                /\ anyconst_nets' = IF net.rand_const = "1"
                                    THEN anyconst_nets \cup {net.name} ELSE anyconst_nets
                /\ anyseq_nets' = IF net.rand_const # "1" /\ net.rand = "1"
                                  THEN anyseq_nets \cup {net.name} ELSE anyseq_nets
                /\ IF SkipNet(net_map, net)
                   THEN UNCHANGED <<module, net_map>>
                   ELSE /\ module' = [module EXCEPT !.wires = Append(@, wire)]
                        /\ net_map' = (net.name :> WireBit(wire.name, 0)) @@ net_map
                /\ Advance("nets") /\ UNCHANGED <<err, autoidx>>
    /\ UNCHANGED <<db, netlist, sva_posedge_map, design, nl_todo, mode_gates, mode_keep,
                   passVars, instVars>>

\* a function with key k removed (std::map / dict erase)
Erase(f, k) == [x \in DOMAIN f \ {k} |-> f[x]]

RECURSIVE NetBusBits(_, _, _, _)
\* the loop of lines 794-819 over the indices is of a net bus that got a wire;
\* acc carries net_map, the new connections, init_nets and the wire's initval
NetBusBits(bus, wire, is, acc) ==
    IF is = <<>> THEN acc
    ELSE LET net == bus.elems[Head(is)]
             bitidx == Head(is) - wire.start_offset
             bit == WireBit(wire.name, bitidx)
             hasInit == net \in DOMAIN acc.init_nets
             initval == IF hasInit /\ acc.init_nets[net] = "0"
                        THEN [acc.initval EXCEPT ![bitidx + 1] = "S0"]
                        ELSE IF hasInit /\ acc.init_nets[net] = "1"
                        THEN [acc.initval EXCEPT ![bitidx + 1] = "S1"]
                        ELSE acc.initval
             r == net_map_at(acc.net_map, net)
         IN  IF net = NULL THEN NetBusBits(bus, wire, Tail(is), acc)
             ELSE IF net \notin DOMAIN acc.net_map
             THEN NetBusBits(bus, wire, Tail(is),
                     [acc EXCEPT !.net_map = (net :> bit) @@ @,
                                 !.init_nets = IF hasInit THEN Erase(@, net) ELSE @,
                                 !.initval = initval,
                                 !.valid = @ \/ hasInit])
             ELSE IF r.err # "none" THEN [acc EXCEPT !.err = r.err]
             ELSE NetBusBits(bus, wire, Tail(is),
                     [acc EXCEPT !.conns = Append(@, [lhs |-> <<bit>>, rhs |-> <<r.bit>>]),
                                 !.init_nets = IF hasInit THEN Erase(@, net) ELSE @,
                                 !.initval = initval,
                                 !.valid = @ \/ hasInit])

RECURSIVE FreeBusSig_KeepsPool(_, _, _, _)
\* the loop over the bus members that leaves the pool as it is (the mutation of
\* FreeBusSig)
FreeBusSig_KeepsPool(bus, is, free, nm) ==
    IF is = <<>> THEN [err |-> "none", sig |-> <<>>, nets |-> {}]
    ELSE LET net == bus.elems[Head(is)]
             rest == FreeBusSig_KeepsPool(bus, Tail(is), free \ {net}, nm)
             r == net_map_at(nm, net)
         IN  IF net # NULL /\ net \in free
             THEN [err |-> IF r.err # "none" THEN r.err ELSE rest.err,
                   sig |-> <<r.bit>> \o rest.sig, nets |-> {}]
             ELSE rest

RECURSIVE FreeBusSig(_, _, _, _)
\* the loop of lines 833-845: the bits of the bus members that are in the pool
\* `free`, resolved through the net map, from the right index to the left; a
\* member found is taken out of the pool
FreeBusSig(bus, is, free, nm) ==
    IF is = <<>> THEN [err |-> "none", sig |-> <<>>, nets |-> {}]
    ELSE LET net == bus.elems[Head(is)]
             rest == FreeBusSig(bus, Tail(is), free \ {net}, nm)
             r == net_map_at(nm, net)
         IN  IF net # NULL /\ net \in free
             THEN [err |-> IF r.err # "none" THEN r.err ELSE rest.err,
                   sig |-> <<r.bit>> \o rest.sig, nets |-> {net} \cup rest.nets]
             ELSE rest

\* module->connect(sig, module->Anyconst(NEW_ID, width)) and the same for Anyseq
\* (lines 847-851, 875, 878): a fresh cell of the given type whose output Y is a
\* fresh wire, and the connection of sig to that wire; a is autoidx at the call
FreeDriver(type, sig, a) ==
    LET y == [i \in 1..Len(sig) |-> WireBit(AutoName(a + 1), i - 1)]
    IN  [wires |-> <<Wire(AutoName(a + 1), Len(sig))>>,
         cells |-> <<[name |-> AutoName(a), type |-> type,
                      params |-> [WIDTH |-> Len(sig)], ports |-> [Y |-> y]]>>,
         conns |-> <<[lhs |-> sig, rhs |-> y]>>]

\* FOREACH_NETBUS_OF_NETLIST, lines 770-852, for the net bus at position idx
ImportNetBus ==
    /\ Running("netbuses")
    /\ LET bus == db[netlist].netbuses[idx]
           is == BusIndices(bus.left, bus.right)
           found_new_net == \E i \in Range(is) : bus.elems[i] \notin DOMAIN net_map
           wire0 == [Wire(Uniquify(escape_id(bus.name)), BusSize(bus)) EXCEPT
                         !.start_offset = Min(bus.left, bus.right)]
           acc0 == [err |-> "none", net_map |-> net_map, conns |-> <<>>,
                    init_nets |-> init_nets,
                    initval |-> [i \in 1..BusSize(bus) |-> "Sx"], valid |-> FALSE]
           acc == IF found_new_net THEN NetBusBits(bus, wire0, is, acc0) ELSE acc0
           wire == IF acc.valid THEN [wire0 EXCEPT !.init = acc.initval] ELSE wire0
           back == BusIndices(bus.right, bus.left)
           ac == FreeBusSig(bus, back, anyconst_nets, acc.net_map)
           as == FreeBusSig(bus, back, anyseq_nets, acc.net_map)
           acd == IF ac.sig # <<>> THEN FreeDriver("$anyconst", ac.sig, autoidx)
                  ELSE [wires |-> <<>>, cells |-> <<>>, conns |-> <<>>]
           a2 == autoidx + 2 * Len(acd.cells)
           asd == IF as.sig # <<>> THEN FreeDriver("$anyseq", as.sig, a2)
                  ELSE [wires |-> <<>>, cells |-> <<>>, conns |-> <<>>]
           e == IF acc.err # "none" THEN acc.err
                ELSE IF ac.err # "none" THEN ac.err ELSE as.err
       IN  IF e # "none"
           THEN Abort(e) /\ UNCHANGED <<module, net_map, init_nets, anyconst_nets,
                                        anyseq_nets, autoidx>>
           ELSE /\ module' = [module EXCEPT
                        !.wires = (IF found_new_net THEN Append(@, wire) ELSE @)
                                  \o acd.wires \o asd.wires,
                        !.cells = @ \o acd.cells \o asd.cells,
                        !.conns = @ \o acc.conns \o acd.conns \o asd.conns]
                /\ net_map' = acc.net_map
                /\ init_nets' = acc.init_nets
                /\ anyconst_nets' = anyconst_nets \ ac.nets
                /\ anyseq_nets' = anyseq_nets \ as.nets
                /\ autoidx' = a2 + 2 * Len(asd.cells)
                /\ Advance("netbuses") /\ err' = err
    /\ UNCHANGED <<db, netlist, sva_posedge_map, design, nl_todo, mode_gates, mode_keep,
                   passVars, instVars>>

\* the nets of the netlist under import that are in set S, in netlist order
NetsIn(S) ==
    LET names == [i \in DOMAIN db[netlist].nets |-> db[netlist].nets[i].name]
    IN  SelectSeq(names, LAMBDA n : n \in S)

\* the init attribute of a wire after bit `offset` was given value c (lines
\* 860-871): the present attribute padded with Sx to the wire's width
InitAttr(wire, offset, c) ==
    LET padded == [i \in 1..wire.width |->
                      IF i <= Len(wire.init) THEN wire.init[i] ELSE "Sx"]
    IN  IF c = "0" THEN [padded EXCEPT ![offset + 1] = "S0"]
        ELSE IF c = "1" THEN [padded EXCEPT ![offset + 1] = "S1"]
        ELSE padded

RECURSIVE InitNetsLoop(_, _)
\* the loop of lines 854-872 over the nets left in init_nets
InitNetsLoop(ns, wires) ==
    IF ns = <<>> THEN [err |-> "none", wires |-> wires]
    ELSE LET r == net_map_at(net_map, Head(ns))
         IN  IF r.err # "none" THEN [err |-> r.err, wires |-> wires]
             ELSE IF r.bit.data # "-" THEN [err |-> "log_assert", wires |-> wires]
             ELSE InitNetsLoop(Tail(ns),
                     [i \in DOMAIN wires |->
                         IF wires[i].name = r.bit.wire
                         THEN [wires[i] EXCEPT
                                  !.init = InitAttr(wires[i], r.bit.offset, init_nets[Head(ns)])]
                         ELSE wires[i]])

\* lines 854-872: the initial values of the nets that are in no net bus
ImportInitNets ==
    /\ Running("init_nets")
    /\ LET r == InitNetsLoop(NetsIn(DOMAIN init_nets), module.wires)
       IN  IF r.err # "none"
           THEN Abort(r.err) /\ UNCHANGED module
           ELSE /\ module' = [module EXCEPT !.wires = r.wires]
                /\ pc' = PhaseAfter(db[netlist], "init_nets") /\ idx' = 1 /\ err' = err
    /\ UNCHANGED <<db, netlist, net_map, sva_posedge_map, design, nl_todo, mode_gates,
                   mode_keep, init_nets, anyconst_nets, anyseq_nets, autoidx, passVars, instVars>>

RECURSIVE FreeNetsLoop(_, _, _)
\* the loops of lines 874-878: one single-bit free driver per net left in a pool
FreeNetsLoop(type, ns, a) ==
    IF ns = <<>> THEN [err |-> "none", wires |-> <<>>, cells |-> <<>>, conns |-> <<>>]
    ELSE LET r == net_map_at(net_map, Head(ns))
             d == FreeDriver(type, <<r.bit>>, a)
             rest == FreeNetsLoop(type, Tail(ns), a + 2)
         IN  IF r.err # "none"
             THEN [err |-> r.err, wires |-> <<>>, cells |-> <<>>, conns |-> <<>>]
             ELSE [err |-> rest.err, wires |-> d.wires \o rest.wires,
                   cells |-> d.cells \o rest.cells, conns |-> d.conns \o rest.conns]

\* lines 874-878: the free drivers of the nets that are in no net bus
ImportFreeDrivers ==
    /\ Running("free_drivers")
    /\ LET ac == FreeNetsLoop("$anyconst", NetsIn(anyconst_nets), autoidx)
           as == FreeNetsLoop("$anyseq", NetsIn(anyseq_nets),
                              autoidx + 2 * Cardinality(anyconst_nets))
           e == IF ac.err # "none" THEN ac.err ELSE as.err
       IN  IF e # "none"
           THEN Abort(e) /\ UNCHANGED <<module, autoidx>>
           ELSE /\ module' = [module EXCEPT !.wires = @ \o ac.wires \o as.wires,
                                            !.cells = @ \o ac.cells \o as.cells,
                                            !.conns = @ \o ac.conns \o as.conns]
                /\ autoidx' = autoidx + 2 * (Len(ac.cells) + Len(as.cells))
                /\ pc' = PhaseAfter(db[netlist], "free_drivers") /\ idx' = 1 /\ err' = err
    /\ UNCHANGED <<db, netlist, net_map, sva_posedge_map, design, nl_todo, mode_gates,
                   mode_keep, init_nets, anyconst_nets, anyseq_nets, passVars, instVars>>

\* lines 880-888: the first pass over the instances records the edge detectors;
\* a later detector on the same output net replaces an earlier one
ImportPosedge ==
    /\ Running("posedge")
    /\ LET insts == db[netlist].insts
           det == {i \in DOMAIN insts : insts[i].type = "PRIM_SVA_POSEDGE"}
           last(out) == CHOOSE i \in det :
                            /\ GetOutput(insts[i]) = out
                            /\ \A j \in det : GetOutput(insts[j]) = out => j <= i
       IN  sva_posedge_map' =
               [out \in {GetOutput(insts[i]) : i \in det} |-> GetInput(insts[last(out)])]
    /\ pc' = PhaseAfter(db[netlist], "posedge") /\ idx' = 1
    /\ UNCHANGED <<db, netlist, net_map, module, design, nl_todo, mode_gates, mode_keep,
                   init_nets, anyconst_nets, anyseq_nets, autoidx, err, passVars, instVars>>

\* ---------------------------------------------------------------- Translator
\* an RTLIL::Cell as the Module::add* helpers build it
Cell(name, type, params, ports) ==
    [name |-> name, type |-> type, params |-> params, ports |-> ports]

\* what translating one instance did: handled is the bool the translator
\* returns, err the fatal error it raised ("none" if none), wires and cells what
\* it added to the module, nauto the NEW_IDs it took. A failing net_map_at in an
\* argument of an add* call ends the run before the call is made.
Translated(errs, wires, cells, nauto) ==
    LET e == FirstErr([i \in DOMAIN errs |-> [err |-> errs[i]]])
    IN  [handled |-> TRUE, err |-> e,
         wires |-> IF e = "none" THEN wires ELSE <<>>,
         cells |-> IF e = "none" THEN cells ELSE <<>>,
         nauto |-> nauto]

\* `return false` after a temporary wire was made (a mutation of NotTranslated)
NotTranslated_TmpWire ==
    [handled |-> FALSE, err |-> "none", wires |-> <<Wire(AutoName(autoidx), 1)>>,
     cells |-> <<>>, nauto |-> 1]

\* `return false` at the end of a translator (lines 297 and 572): no branch was
\* taken, so nothing was added
NotTranslated == [handled |-> FALSE, err |-> "none", wires |-> <<>>, cells |-> <<>>, nauto |-> 0]

Fatal(e) == [handled |-> TRUE, err |-> e, wires |-> <<>>, cells |-> <<>>, nauto |-> 0]

\* net_map_at on the importer's present map
At(net) == net_map_at(net_map, net)

\* PRIM_DFFRS in import_netlist_instance_gates (lines 281-295)
GatesDffrs(inst) ==
    LET name == escape_id(inst.name)
        clk == At(GetClock(inst))
        d == At(GetInput(inst))
        q == At(GetOutput(inst))
        set == At(GetSet(inst))
        reset == At(GetReset(inst))
    IN  IF IsGnd(GetSet(inst)) /\ IsGnd(GetReset(inst))
        THEN Translated(<<clk.err, d.err, q.err>>, <<>>,
                 <<Cell(name, "$_DFF_P_", EmptyFcn,
                        [C |-> <<clk.bit>>, D |-> <<d.bit>>, Q |-> <<q.bit>>])>>, 0)
        ELSE IF IsGnd(GetSet(inst))
        THEN Translated(<<clk.err, reset.err, d.err, q.err>>, <<>>,
                 <<Cell(name, "$_DFF_PP0_", [ARST_VALUE |-> FALSE],
                        [C |-> <<clk.bit>>, R |-> <<reset.bit>>, D |-> <<d.bit>>,
                         Q |-> <<q.bit>>])>>, 0)
        ELSE IF IsGnd(GetReset(inst))
        THEN Translated(<<clk.err, set.err, d.err, q.err>>, <<>>,
                 <<Cell(name, "$_DFF_PP1_", [ARST_VALUE |-> TRUE],
                        [C |-> <<clk.bit>>, R |-> <<set.bit>>, D |-> <<d.bit>>,
                         Q |-> <<q.bit>>])>>, 0)
        ELSE Translated(<<clk.err, set.err, reset.err, d.err, q.err>>, <<>>,
                 <<Cell(name, "$_DFFSR_PPP_", EmptyFcn,
                        [C |-> <<clk.bit>>, S |-> <<set.bit>>, R |-> <<reset.bit>>,
                         D |-> <<d.bit>>, Q |-> <<q.bit>>])>>, 0)

\* VerificImporter::import_netlist_instance_gates (lines 209-298), for the
\* primitives PRIM_AND (211-214), PRIM_NAND (216-221), PRIM_INV (250-253) and
\* PRIM_DFFRS (281-295); every other type of the model falls to `return false`
import_netlist_instance_gates(inst) ==
    LET name == escape_id(inst.name)
        a == At(GetInput1(inst))
        b == At(GetInput2(inst))
        y == At(GetOutput(inst))
        tmp == WireBit(AutoName(autoidx), 0)
    IN  CASE inst.type = "PRIM_AND" ->
               Translated(<<a.err, b.err, y.err>>, <<>>,
                   <<Cell(name, "$_AND_", EmptyFcn,
                          [A |-> <<a.bit>>, B |-> <<b.bit>>, Y |-> <<y.bit>>])>>, 0)
          [] inst.type = "PRIM_NAND" ->
               Translated(<<a.err, b.err, y.err>>, <<Wire(AutoName(autoidx), 1)>>,
                   <<Cell(AutoName(autoidx + 1), "$_AND_", EmptyFcn,
                          [A |-> <<a.bit>>, B |-> <<b.bit>>, Y |-> <<tmp>>]),
                     Cell(name, "$_NOT_", EmptyFcn, [A |-> <<tmp>>, Y |-> <<y.bit>>])>>, 2)
          [] inst.type = "PRIM_INV" ->
               LET i == At(GetInput(inst))
               IN  Translated(<<i.err, y.err>>, <<>>,
                       <<Cell(name, "$_NOT_", EmptyFcn, [A |-> <<i.bit>>, Y |-> <<y.bit>>])>>, 0)
          [] inst.type = "PRIM_DFFRS" -> GatesDffrs(inst)
          [] OTHER -> NotTranslated

\* PRIM_DFFRS with the reset values of the two async registers taken for each other
CellsDffrs_Swapped(inst) ==
    LET name == escape_id(inst.name)
        clk == At(GetClock(inst))
        d == At(GetInput(inst))
        q == At(GetOutput(inst))
        set == At(GetSet(inst))
        reset == At(GetReset(inst))
    IN  IF IsGnd(GetSet(inst)) /\ IsGnd(GetReset(inst))
        THEN Translated(<<clk.err, d.err, q.err>>, <<>>,
                 <<Cell(name, "$dff", [WIDTH |-> 1],
                        [CLK |-> <<clk.bit>>, D |-> <<d.bit>>, Q |-> <<q.bit>>])>>, 0)
        ELSE IF IsGnd(GetSet(inst))
        THEN Translated(<<clk.err, reset.err, d.err, q.err>>, <<>>,
                 <<Cell(name, "$adff", [WIDTH |-> 1, ARST_VALUE |-> "S1"],
                        [CLK |-> <<clk.bit>>, ARST |-> <<reset.bit>>, D |-> <<d.bit>>,
                         Q |-> <<q.bit>>])>>, 0)
        ELSE IF IsGnd(GetReset(inst))
        THEN Translated(<<clk.err, set.err, d.err, q.err>>, <<>>,
                 <<Cell(name, "$adff", [WIDTH |-> 1, ARST_VALUE |-> "S0"],
                        [CLK |-> <<clk.bit>>, ARST |-> <<set.bit>>, D |-> <<d.bit>>,
                         Q |-> <<q.bit>>])>>, 0)
        ELSE Translated(<<clk.err, set.err, reset.err, d.err, q.err>>, <<>>,
                 <<Cell(name, "$dffsr", [WIDTH |-> 1],
                        [CLK |-> <<clk.bit>>, SET |-> <<set.bit>>, CLR |-> <<reset.bit>>,
                         D |-> <<d.bit>>, Q |-> <<q.bit>>])>>, 0)

\* PRIM_DFFRS in import_netlist_instance_cells (lines 362-376)
CellsDffrs(inst) ==
    LET name == escape_id(inst.name)
        clk == At(GetClock(inst))
        d == At(GetInput(inst))
        q == At(GetOutput(inst))
        set == At(GetSet(inst))
        reset == At(GetReset(inst))
    IN  IF IsGnd(GetSet(inst)) /\ IsGnd(GetReset(inst))
        THEN Translated(<<clk.err, d.err, q.err>>, <<>>,
                 <<Cell(name, "$dff", [WIDTH |-> 1],
                        [CLK |-> <<clk.bit>>, D |-> <<d.bit>>, Q |-> <<q.bit>>])>>, 0)
        ELSE IF IsGnd(GetSet(inst))
        THEN Translated(<<clk.err, reset.err, d.err, q.err>>, <<>>,
                 <<Cell(name, "$adff", [WIDTH |-> 1, ARST_VALUE |-> "S0"],
                        [CLK |-> <<clk.bit>>, ARST |-> <<reset.bit>>, D |-> <<d.bit>>,
                         Q |-> <<q.bit>>])>>, 0)
        ELSE IF IsGnd(GetReset(inst))
        THEN Translated(<<clk.err, set.err, d.err, q.err>>, <<>>,
                 <<Cell(name, "$adff", [WIDTH |-> 1, ARST_VALUE |-> "S1"],
                        [CLK |-> <<clk.bit>>, ARST |-> <<set.bit>>, D |-> <<d.bit>>,
                         Q |-> <<q.bit>>])>>, 0)
        ELSE Translated(<<clk.err, set.err, reset.err, d.err, q.err>>, <<>>,
                 <<Cell(name, "$dffsr", [WIDTH |-> 1],
                        [CLK |-> <<clk.bit>>, SET |-> <<set.bit>>, CLR |-> <<reset.bit>>,
                         D |-> <<d.bit>>, Q |-> <<q.bit>>])>>, 0)

\* PRIM_DLATCHRS made a set/reset latch whatever its set and reset are on (a
\* mutation of CellsDlatchrs)
CellsDlatchrs_AlwaysSr(inst) ==
    LET name == escape_id(inst.name)
        en == At(GetControl(inst))
        d == At(GetInput(inst))
        q == At(GetOutput(inst))
        set == At(GetSet(inst))
        reset == At(GetReset(inst))
    IN  Translated(<<en.err, set.err, reset.err, d.err, q.err>>, <<>>,
            <<Cell(name, "$dlatchsr", [WIDTH |-> 1],
                   [EN |-> <<en.bit>>, SET |-> <<set.bit>>, CLR |-> <<reset.bit>>,
                    D |-> <<d.bit>>, Q |-> <<q.bit>>])>>, 0)

\* PRIM_DLATCHRS in import_netlist_instance_cells (lines 378-386)
CellsDlatchrs(inst) ==
    LET name == escape_id(inst.name)
        en == At(GetControl(inst))
        d == At(GetInput(inst))
        q == At(GetOutput(inst))
        set == At(GetSet(inst))
        reset == At(GetReset(inst))
    IN  IF IsGnd(GetSet(inst)) /\ IsGnd(GetReset(inst))
        THEN Translated(<<en.err, d.err, q.err>>, <<>>,
                 <<Cell(name, "$dlatch", [WIDTH |-> 1],
                        [EN |-> <<en.bit>>, D |-> <<d.bit>>, Q |-> <<q.bit>>])>>, 0)
        ELSE Translated(<<en.err, set.err, reset.err, d.err, q.err>>, <<>>,
                 <<Cell(name, "$dlatchsr", [WIDTH |-> 1],
                        [EN |-> <<en.bit>>, SET |-> <<set.bit>>, CLR |-> <<reset.bit>>,
                         D |-> <<d.bit>>, Q |-> <<q.bit>>])>>, 0)

\* a two-operand word-level cell Module::addXxx(name, IN1, IN2, OUT, is_signed)
BinaryOp(inst, type, is_signed) ==
    LET in1 == operatorInput1(inst)
        in2 == operatorInput2(inst)
        out == operatorOutput(inst)
    IN  Translated(<<in1.err, in2.err, out.err>>, DummyWires(out),
            <<Cell(escape_id(inst.name), type,
                   [A_SIGNED |-> is_signed, B_SIGNED |-> is_signed,
                    A_WIDTH |-> Len(in1.sig), B_WIDTH |-> Len(in2.sig),
                    Y_WIDTH |-> Len(out.sig)],
                   [A |-> in1.sig, B |-> in2.sig, Y |-> out.sig])>>, out.nauto)

\* OPER_SHIFT_RIGHT with the carry-in compared to the other end of operand 1
CellsShiftRight_OtherEnd(inst) ==
    LET net_cin == GetCin(inst)
        net_a_msb == GetInput1Bit(inst, inst.in1size - 1)
    IN  IF IsGnd(net_cin) THEN BinaryOp(inst, "$shr", FALSE)
        ELSE IF net_cin = net_a_msb THEN BinaryOp(inst, "$sshr", TRUE)
        ELSE Fatal("unsupported_pattern")

\* OPER_SHIFT_RIGHT in import_netlist_instance_cells (lines 453-463)
CellsShiftRight(inst) ==
    LET net_cin == GetCin(inst)
        net_a_msb == GetInput1Bit(inst, 0)
    IN  IF IsGnd(net_cin) THEN BinaryOp(inst, "$shr", FALSE)
        ELSE IF net_cin = net_a_msb THEN BinaryOp(inst, "$sshr", TRUE)
        ELSE Fatal("unsupported_pattern")

\* OPER_LESSTHAN with the two constants taken for each other
CellsLessThan_Swapped(inst) ==
    LET net_cin == GetCin(inst)
        in1 == operatorInput1(inst)
        in2 == operatorInput2(inst)
        y == At(GetOutput(inst))
        cmp(type) ==
            Translated(<<in1.err, in2.err, y.err>>, <<>>,
                <<Cell(escape_id(inst.name), type,
                       [A_SIGNED |-> inst.signed, B_SIGNED |-> inst.signed,
                        A_WIDTH |-> Len(in1.sig), B_WIDTH |-> Len(in2.sig), Y_WIDTH |-> 1],
                       [A |-> in1.sig, B |-> in2.sig, Y |-> <<y.bit>>])>>, 0)
    IN  IF IsGnd(net_cin) THEN cmp("$le")
        ELSE IF IsPwr(net_cin) THEN cmp("$lt")
        ELSE Fatal("unsupported_pattern")

\* OPER_LESSTHAN in import_netlist_instance_cells (lines 485-494)
CellsLessThan(inst) ==
    LET net_cin == GetCin(inst)
        in1 == operatorInput1(inst)
        in2 == operatorInput2(inst)
        y == At(GetOutput(inst))
        cmp(type) ==
            Translated(<<in1.err, in2.err, y.err>>, <<>>,
                <<Cell(escape_id(inst.name), type,
                       [A_SIGNED |-> inst.signed, B_SIGNED |-> inst.signed,
                        A_WIDTH |-> Len(in1.sig), B_WIDTH |-> Len(in2.sig), Y_WIDTH |-> 1],
                       [A |-> in1.sig, B |-> in2.sig, Y |-> <<y.bit>>])>>, 0)
    IN  IF IsGnd(net_cin) THEN cmp("$lt")
        ELSE IF IsPwr(net_cin) THEN cmp("$le")
        ELSE Fatal("unsupported_pattern")

\* OPER_WIDE_DFFRS with only the set vector tested (a mutation of CellsWideDffrs)
CellsWideDffrs_SetOnly(inst) ==
    LET name == escape_id(inst.name)
        sig_set == operatorInport(inst, "set")
        sig_reset == operatorInport(inst, "reset")
        clk == At(GetClock(inst))
        in == operatorInput(inst)
        out == operatorOutput(inst)
    IN  IF sig_set.err # "none" THEN Fatal(sig_set.err)
        ELSE IF sig_reset.err # "none" THEN Fatal(sig_reset.err)
        ELSE IF is_fully_const(sig_set.sig) /\ ~as_bool(sig_set.sig)
        THEN Translated(<<clk.err, in.err, out.err>>, DummyWires(out),
                 <<Cell(name, "$dff", [WIDTH |-> Len(out.sig)],
                        [CLK |-> <<clk.bit>>, D |-> in.sig, Q |-> out.sig])>>, out.nauto)
        ELSE Translated(<<clk.err, in.err, out.err>>, DummyWires(out),
                 <<Cell(name, "$dffsr", [WIDTH |-> Len(out.sig)],
                        [CLK |-> <<clk.bit>>, SET |-> sig_set.sig, CLR |-> sig_reset.sig,
                         D |-> in.sig, Q |-> out.sig])>>, out.nauto)

\* OPER_WIDE_DFFRS in import_netlist_instance_cells (lines 556-564)
CellsWideDffrs(inst) ==
    LET name == escape_id(inst.name)
        sig_set == operatorInport(inst, "set")
        sig_reset == operatorInport(inst, "reset")
        clk == At(GetClock(inst))
        in == operatorInput(inst)
        out == operatorOutput(inst)
    IN  IF sig_set.err # "none" THEN Fatal(sig_set.err)
        ELSE IF sig_reset.err # "none" THEN Fatal(sig_reset.err)
        ELSE IF /\ is_fully_const(sig_set.sig) /\ ~as_bool(sig_set.sig)
                /\ is_fully_const(sig_reset.sig) /\ ~as_bool(sig_reset.sig)
        THEN Translated(<<clk.err, in.err, out.err>>, DummyWires(out),
                 <<Cell(name, "$dff", [WIDTH |-> Len(out.sig)],
                        [CLK |-> <<clk.bit>>, D |-> in.sig, Q |-> out.sig])>>, out.nauto)
        ELSE Translated(<<clk.err, in.err, out.err>>, DummyWires(out),
                 <<Cell(name, "$dffsr", [WIDTH |-> Len(out.sig)],
                        [CLK |-> <<clk.bit>>, SET |-> sig_set.sig, CLR |-> sig_reset.sig,
                         D |-> in.sig, Q |-> out.sig])>>, out.nauto)

\* VerificImporter::import_netlist_instance_cells (lines 300-573), for PRIM_AND
\* (302-305), PRIM_NAND (307-312), PRIM_INV (336-339), PRIM_DFFRS (362-376),
\* PRIM_DLATCHRS (378-386), OPER_SHIFT_RIGHT (453-463), OPER_LESSTHAN (485-494)
\* and OPER_WIDE_DFFRS (556-564); every other type of the model falls to
\* `return false`
import_netlist_instance_cells(inst) ==
    LET name == escape_id(inst.name)
        a == At(GetInput1(inst))
        b == At(GetInput2(inst))
        y == At(GetOutput(inst))
        tmp == WireBit(AutoName(autoidx), 0)
        w1 == [A_SIGNED |-> FALSE, B_SIGNED |-> FALSE, A_WIDTH |-> 1, B_WIDTH |-> 1,
               Y_WIDTH |-> 1]
    IN  CASE inst.type = "PRIM_AND" ->
               Translated(<<a.err, b.err, y.err>>, <<>>,
                   <<Cell(name, "$and", w1,
                          [A |-> <<a.bit>>, B |-> <<b.bit>>, Y |-> <<y.bit>>])>>, 0)
          [] inst.type = "PRIM_NAND" ->
               Translated(<<a.err, b.err, y.err>>, <<Wire(AutoName(autoidx), 1)>>,
                   <<Cell(AutoName(autoidx + 1), "$and", w1,
                          [A |-> <<a.bit>>, B |-> <<b.bit>>, Y |-> <<tmp>>]),
                     Cell(name, "$not", [A_SIGNED |-> FALSE, A_WIDTH |-> 1, Y_WIDTH |-> 1],
                          [A |-> <<tmp>>, Y |-> <<y.bit>>])>>, 2)
          [] inst.type = "PRIM_INV" ->
               LET i == At(GetInput(inst))
               IN  Translated(<<i.err, y.err>>, <<>>,
                       <<Cell(name, "$not", [A_SIGNED |-> FALSE, A_WIDTH |-> 1, Y_WIDTH |-> 1],
                              [A |-> <<i.bit>>, Y |-> <<y.bit>>])>>, 0)
          [] inst.type = "PRIM_DFFRS" -> CellsDffrs(inst)
          [] inst.type = "PRIM_DLATCHRS" -> CellsDlatchrs(inst)
          [] inst.type = "OPER_SHIFT_RIGHT" -> CellsShiftRight(inst)
          [] inst.type = "OPER_LESSTHAN" -> CellsLessThan(inst)
          [] inst.type = "OPER_WIDE_DFFRS" -> CellsWideDffrs(inst)
          [] OTHER -> NotTranslated

\* ---------------------------------------------------------------- Instances phase
\* what the fixed handling adds beside wires and cells: direct connections, the
\* views put on the work set and the wire whose init attribute is set to 1
Plain(r) == r @@ [conns |-> <<>>, todo |-> {}, initwire |-> NULL, warn |-> <<>>]

\* module->connect(net_map_at(out), <constant>) for PRIM_PWR, PRIM_GND, PRIM_X and
\* PRIM_Z (lines 937-945 and 952-960)
ConstDriver(inst, state) ==
    LET o == At(GetOutput(inst))
    IN  [conns |-> IF o.err = "none" THEN <<[lhs |-> <<o.bit>>, rhs |-> <<ConstBit(state)>>]>>
                   ELSE <<>>]
        @@ Plain(Translated(<<o.err>>, <<>>, <<>>, 0))

\* PRIM_SVA_AT (lines 899-917)
SvaAt(inst) ==
    LET swap == GetInput2(inst) \in DOMAIN sva_posedge_map
        in1 == IF swap THEN GetInput2(inst) ELSE GetInput1(inst)
        in2 == IF swap THEN GetInput1(inst) ELSE GetInput2(inst)
        out == At(GetOutput(inst))
        clk == At(sva_posedge_map[in1])
        d == At(in2)
        width == LET ws == {i \in DOMAIN module.wires : module.wires[i].name = out.bit.wire}
                 IN  IF ws = {} THEN 0 ELSE module.wires[CHOOSE i \in ws : TRUE].width
    IN  IF in1 \notin DOMAIN sva_posedge_map THEN Plain(Fatal("log_assert"))
        ELSE IF out.err # "none" THEN Plain(Fatal(out.err))
        ELSE IF out.bit.data # "-" \/ width # 1 THEN Plain(Fatal("log_assert"))
        ELSE [initwire |-> out.bit.wire]
             @@ Plain(Translated(<<clk.err, d.err>>, <<>>,
                    <<Cell(AutoName(autoidx), "$dff", [WIDTH |-> 1],
                           [CLK |-> <<clk.bit>>, D |-> <<d.bit>>, Q |-> <<out.bit>>])>>, 1))

\* assert / assume / cover (lines 919-935)
SvaCheck(inst, type) ==
    LET a == At(GetInput(inst))
    IN  Plain(Translated(<<a.err>>, <<>>,
            <<Cell(AutoName(autoidx), type, EmptyFcn,
                   [A |-> <<a.bit>>, EN |-> <<ConstBit("S1")>>])>>, 1))

\* std::map::at on module->memories
MemoryAt(name) ==
    IF name \in DOMAIN module.memories
    THEN [err |-> "none", memory |-> module.memories[name]]
    ELSE [err |-> "out_of_range", memory |-> [width |-> 0, size |-> 0]]

\* OPER_READ_PORT with the width check left out
ReadPort_NoCheck(inst) ==
    LET m == MemoryAt(escape_id(GetInput(inst)))
        addr == operatorInput1(inst)
        data == operatorOutput(inst)
    IN  IF m.err # "none" THEN Plain(Fatal(m.err))
        ELSE Plain(Translated(<<addr.err, data.err>>, DummyWires(data),
                 <<Cell(escape_id(inst.name), "$memrd",
                        [MEMID |-> escape_id(GetInput(inst)), CLK_ENABLE |-> FALSE,
                         CLK_POLARITY |-> TRUE, TRANSPARENT |-> FALSE,
                         ABITS |-> Len(addr.sig), WIDTH |-> Len(data.sig)],
                        [CLK |-> <<ConstBit("Sx")>>, EN |-> <<ConstBit("Sx")>>,
                         ADDR |-> addr.sig, DATA |-> data.sig])>>, data.nauto))

\* OPER_READ_PORT (lines 962-983)
ReadPort(inst) ==
    LET m == MemoryAt(escape_id(GetInput(inst)))
        addr == operatorInput1(inst)
        data == operatorOutput(inst)
    IN  IF m.err # "none" THEN Plain(Fatal(m.err))
        ELSE IF m.memory.width # inst.outsize THEN Plain(Fatal("asymmetric_memory"))
        ELSE Plain(Translated(<<addr.err, data.err>>, DummyWires(data),
                 <<Cell(escape_id(inst.name), "$memrd",
                        [MEMID |-> escape_id(GetInput(inst)), CLK_ENABLE |-> FALSE,
                         CLK_POLARITY |-> TRUE, TRANSPARENT |-> FALSE,
                         ABITS |-> Len(addr.sig), WIDTH |-> Len(data.sig)],
                        [CLK |-> <<ConstBit("Sx")>>, EN |-> <<ConstBit("Sx")>>,
                         ADDR |-> addr.sig, DATA |-> data.sig])>>, data.nauto))

\* OPER_WRITE_PORT and OPER_CLOCKED_WRITE_PORT (lines 985-1011)
WritePort(inst) ==
    LET m == MemoryAt(escape_id(GetOutput(inst)))
        addr == operatorInput1(inst)
        data == operatorInput2(inst)
        en == At(GetControl(inst))
        clocked == inst.type = "OPER_CLOCKED_WRITE_PORT"
        clk == IF clocked THEN At(GetClock(inst))
               ELSE [err |-> "none", bit |-> ConstBit("S0")]
    IN  IF m.err # "none" THEN Plain(Fatal(m.err))
        ELSE IF m.memory.width # inst.in2size THEN Plain(Fatal("asymmetric_memory"))
        ELSE Plain(Translated(<<addr.err, data.err, en.err, clk.err>>, <<>>,
                 <<Cell(escape_id(inst.name), "$memwr",
                        [MEMID |-> escape_id(GetOutput(inst)), CLK_ENABLE |-> clocked,
                         CLK_POLARITY |-> TRUE, PRIORITY |-> 0,
                         ABITS |-> Len(addr.sig), WIDTH |-> Len(data.sig)],
                        [EN |-> [i \in 1..Len(data.sig) |-> en.bit], CLK |-> <<clk.bit>>,
                         ADDR |-> addr.sig, DATA |-> data.sig])>>, 0))

RECURSIVE SetToSeq(_)
\* the elements of a finite set in some fixed order
SetToSeq(S) ==
    IF S = {} THEN <<>>
    ELSE LET x == CHOOSE y \in S : TRUE IN <<x>> \o SetToSeq(S \ {x})

RECURSIVE PortConns(_, _, _)
\* FOREACH_PORTREF_OF_INST of lines 1040-1058 over the port keys ks: acc.ports is
\* cell_port_conns; a vector too short for the offset is first extended with the
\* bits of a fresh wire
PortConns(inst, ks, acc) ==
    IF ks = <<>> THEN acc
    ELSE LET port_name == escape_id(Head(ks)[1])
             port_offset == Head(ks)[2]
             sigvec == IF port_name \in DOMAIN acc.ports THEN acc.ports[port_name] ELSE <<>>
             grow == Len(sigvec) <= port_offset
             zname == AutoName(autoidx + acc.nauto)
             n == port_offset + 1 - Len(sigvec)
             grown == IF grow THEN sigvec \o [i \in 1..n |-> WireBit(zname, i - 1)]
                      ELSE sigvec
             r == At(inst.conn[Head(ks)])
         IN  IF r.err # "none"
             THEN [acc EXCEPT !.err = r.err,
                              !.wires = IF grow THEN Append(@, Wire(zname, n)) ELSE @,
                              !.nauto = IF grow THEN @ + 1 ELSE @]
             ELSE PortConns(inst, Tail(ks),
                     [acc EXCEPT
                         !.ports = (port_name :> [grown EXCEPT ![port_offset + 1] = r.bit]) @@ @,
                         !.wires = IF grow THEN Append(@, Wire(zname, n)) ELSE @,
                         !.nauto = IF grow THEN @ + 1 ELSE @])

\* lines 1013-1021 and 1027-1067: the warnings about an instance no translation
\* took (an operator in cells mode, a primitive), its view put on the work set
\* and a cell of the view's type added, and then its port connections collected
\* and set: when a port's net cannot be mapped the run ends with the cell
\* added, but no port set
Placeholder(inst) ==
    LET pc0 == [err |-> "none", ports |-> EmptyFcn, wires |-> <<>>, nauto |-> 0]
        c == PortConns(inst, SetToSeq(DOMAIN inst.conn), pc0)
        type == IF IsOperator(inst) THEN "$verific$" \o OwnerName(inst.view)
                ELSE escape_id(OwnerName(inst.view))
        operator_warning ==
            IF ~mode_gates /\ IsOperator(inst)
            THEN <<<<"unsupported_operator", OwnerName(inst.view)>>>> ELSE <<>>
        primitive_warning ==
            IF IsPrimitive(inst)
            THEN <<<<"unsupported_primitive", inst.name>>>> ELSE <<>>
    IN  [handled |-> TRUE, err |-> c.err, wires |-> c.wires,
         cells |-> <<Cell(escape_id(inst.name), type, EmptyFcn,
                          IF c.err = "none" THEN c.ports ELSE EmptyFcn)>>,
         nauto |-> c.nauto, conns |-> <<>>, todo |-> {inst.view},
         initwire |-> NULL, warn |-> operator_warning \o primitive_warning]

\* the fallthrough without the check of -k (the mutation of Fallthrough)
Fallthrough_NoKeepCheck(inst) == Placeholder(inst)

\* lines 1013-1067: an instance no translation took. A primitive is fatal unless
\* -k is given (lines 1023-1026); otherwise the placeholder cell is made
Fallthrough(inst) ==
    IF IsPrimitive(inst) /\ ~mode_keep
    THEN Plain(Fatal("unsupported_primitive"))
    ELSE Placeholder(inst)

\* lines 1013-1021: a translation that returned true ends the iteration
\* (continue); after one that returned false the loop body goes on to `rest`,
\* with whatever the translator had already put into the module
TranslatedOr(t, rest) ==
    IF t.handled THEN Plain(t)
    ELSE [rest EXCEPT !.wires = t.wires \o @,
                      !.cells = t.cells \o @,
                      !.nauto = t.nauto + @]

\* the body of the second FOREACH_INSTANCE_OF_NETLIST loop (lines 890-1068) for
\* one instance
InstanceResult(inst) ==
    LET t == IF mode_gates THEN import_netlist_instance_gates(inst)
             ELSE import_netlist_instance_cells(inst)
    IN  CASE inst.type = "PRIM_SVA_POSEDGE" -> Plain(Translated(<<>>, <<>>, <<>>, 0))
          [] inst.type = "PRIM_SVA_AT" -> SvaAt(inst)
          [] inst.type = "PRIM_SVA_ASSERT" -> SvaCheck(inst, "$assert")
          [] inst.type = "PRIM_SVA_ASSUME" -> SvaCheck(inst, "$assume")
          [] inst.type = "PRIM_SVA_COVER" -> SvaCheck(inst, "$cover")
          [] inst.type = "PRIM_PWR" -> ConstDriver(inst, "S1")
          [] inst.type = "PRIM_GND" -> ConstDriver(inst, "S0")
          [] inst.type = "PRIM_BUF" ->
               LET i == At(GetInput(inst))
                   o == At(GetOutput(inst))
               IN  Plain(Translated(<<i.err, o.err>>, <<>>,
                       <<Cell(escape_id(inst.name), "$_BUF_", EmptyFcn,
                              [A |-> <<i.bit>>, Y |-> <<o.bit>>])>>, 0))
          [] inst.type = "PRIM_X" -> ConstDriver(inst, "Sx")
          [] inst.type = "PRIM_Z" -> ConstDriver(inst, "Sz")
          [] inst.type = "OPER_READ_PORT" -> ReadPort(inst)
          [] inst.type \in {"OPER_WRITE_PORT", "OPER_CLOCKED_WRITE_PORT"} -> WritePort(inst)
          [] OTHER -> TranslatedOr(t, Fallthrough(inst))

\* FOREACH_INSTANCE_OF_NETLIST, lines 890-1068, for the instance at position idx
ImportInstance ==
    /\ Running("insts")
    /\ LET r == InstanceResult(db[netlist].insts[idx])
       IN  /\ module' = [module EXCEPT
                       !.wires = [i \in DOMAIN module.wires |->
                                     IF module.wires[i].name = r.initwire
                                     THEN [module.wires[i] EXCEPT !.init = <<"S1">>]
                                     ELSE module.wires[i]]
                                 \o r.wires,
                       !.cells = @ \o r.cells,
                       !.conns = @ \o r.conns]
           /\ autoidx' = autoidx + r.nauto
           /\ nl_todo' = nl_todo \cup r.todo
           /\ inserted' = inserted \o SetToSeq(r.todo)
           /\ warnings' = warnings \o r.warn
           /\ IF r.err # "none" THEN Abort(r.err) ELSE Advance("insts") /\ err' = err
    /\ UNCHANGED <<db, netlist, net_map, sva_posedge_map, design, mode_gates, mode_keep,
                   init_nets, anyconst_nets, anyseq_nets, passVars>>

\* ---------------------------------------------------------------- External-Net Resolver
\* Netlist::GetReferences(): the instances of data base d whose view is nl, each
\* as <<netlist that holds it, its position there>>
GetReferences(d, nl) ==
    {r \in UNION {{<<n, i>> : i \in DOMAIN d[n].insts} : n \in DOMAIN d} :
        d[r[1]].insts[r[2]].view = nl}

\* Netlist::NumOfRefs()
NumOfRefs(d, nl) == Cardinality(GetReferences(d, nl))

\* stringf("___extnets_%d", portname_cnt)
ExtNetName(k) == "___extnets_" \o ToString(k)

\* get_net_level_up that never looks a net up in net_level_up: every call makes
\* a port and a net (a mutation of get_net_level_up)
get_net_level_up_NoMemo(st, net) ==
    LET nl == OwnerIn(st.d, net)
        up == CHOOSE r \in GetReferences(st.d, nl) : TRUE
        up_nl == up[1]
        name == ExtNetName(st.portname_cnt)
        new_port == [name |-> name, dir |-> "DIR_OUT", bus |-> FALSE, net |-> net]
        d1 == [st.d EXCEPT ![nl].ports = Append(@, new_port)]
        d2 == [d1 EXCEPT ![up_nl].nets = Append(@, Net(name))]
        d3 == [d2 EXCEPT ![up_nl].insts[up[2]].conn = (<<name, 0>> :> name) @@ @]
    IN  IF NumOfRefs(st.d, nl) # 1
        THEN [st |-> st, net |-> net]
        ELSE [st |-> [d |-> d3,
                      net_level_up |-> (net :> name) @@ st.net_level_up,
                      portname_cnt |-> st.portname_cnt + 1],
              net |-> name]

\* get_net_level_up without the test of NumOfRefs: a net whose owner has any
\* reference is lifted through one of them (a mutation of get_net_level_up)
get_net_level_up_NoUniqueCheck(st, net) ==
    IF net \in DOMAIN st.net_level_up
    THEN [st |-> st, net |-> st.net_level_up[net]]
    ELSE LET nl == OwnerIn(st.d, net)
             up == CHOOSE r \in GetReferences(st.d, nl) : TRUE
             up_nl == up[1]
             name == ExtNetName(st.portname_cnt)
             new_port == [name |-> name, dir |-> "DIR_OUT", bus |-> FALSE, net |-> net]
             d1 == [st.d EXCEPT ![nl].ports = Append(@, new_port)]
             d2 == [d1 EXCEPT ![up_nl].nets = Append(@, Net(name))]
             d3 == [d2 EXCEPT ![up_nl].insts[up[2]].conn = (<<name, 0>> :> name) @@ @]
         IN  IF NumOfRefs(st.d, nl) = 0
             THEN [st |-> st, net |-> net]
             ELSE [st |-> [d |-> d3,
                           net_level_up |-> (net :> name) @@ st.net_level_up,
                           portname_cnt |-> st.portname_cnt + 1],
                   net |-> name]

\* VerificExtNets::get_net_level_up (lines 1080-1108) on resolver state st (data
\* base d, memo net_level_up, counter portname_cnt): the state after the call and
\* the net returned. A net not in the memo whose owner has exactly one reference
\* gets a DIR_OUT port on its owner, a new net of the same name in the netlist
\* of the referencing instance, and that instance's new port connected to it
get_net_level_up(st, net) ==
    IF net \in DOMAIN st.net_level_up
    THEN [st |-> st, net |-> st.net_level_up[net]]
    ELSE LET nl == OwnerIn(st.d, net)
             up == CHOOSE r \in GetReferences(st.d, nl) : TRUE
             up_nl == up[1]
             name == ExtNetName(st.portname_cnt)
             new_port == [name |-> name, dir |-> "DIR_OUT", bus |-> FALSE, net |-> net]
             d1 == [st.d EXCEPT ![nl].ports = Append(@, new_port)]
             d2 == [d1 EXCEPT ![up_nl].nets = Append(@, Net(name))]
             d3 == [d2 EXCEPT ![up_nl].insts[up[2]].conn = (<<name, 0>> :> name) @@ @]
         IN  IF NumOfRefs(st.d, nl) # 1
             THEN [st |-> st, net |-> net]
             ELSE [st |-> [d |-> d3,
                           net_level_up |-> (net :> name) @@ st.net_level_up,
                           portname_cnt |-> st.portname_cnt + 1],
                   net |-> name]

RECURSIVE LiftWhileExternal(_, _, _)
\* the while loop of lines 1131-1139: the net is lifted until it is a net of nl
\* or get_net_level_up returns it unchanged
LiftWhileExternal(st, net, nl) ==
    IF ~IsExternalIn(st.d, net, nl) THEN [st |-> st, net |-> net]
    ELSE LET r == get_net_level_up(st, net)
         IN  IF r.net = net THEN [st |-> r.st, net |-> net]
             ELSE LiftWhileExternal(r.st, r.net, nl)

\* a frame of VerificExtNets::run(nl): the loop it is in, its position i among
\* the instances, the port references of instance i it has visited, and its
\* todo_connect
Frame(nl) ==
    [nl |-> nl, loop |-> "recurse", i |-> 1, visited |-> {}, todo_connect |-> <<>>]

\* the frame on top of the stack, and the stack with that frame replaced
Top == stack[Len(stack)]
WithTop(f) == [stack EXCEPT ![Len(stack)] = f]

\* the first FOREACH_INSTANCE_OF_NETLIST of run (lines 1118-1119): run is called
\* on the view of instance i; the view of a primitive holds no instance and no
\* port reference, so that call returns at once
ExtRecurse ==
    /\ pc = "extnets" /\ stack # <<>> /\ Top.loop = "recurse"
    /\ LET f == Top
           done == f.i > Len(db[f.nl].insts)
           view == db[f.nl].insts[f.i].view
       IN  stack' = IF done THEN WithTop([f EXCEPT !.loop = "scan", !.i = 1])
                    ELSE IF view \in DOMAIN db
                    THEN Append(WithTop([f EXCEPT !.i = @ + 1]), Frame(view))
                    ELSE WithTop([f EXCEPT !.i = @ + 1])
    /\ UNCHANGED <<db, pc, importerVars, portname_cnt, net_level_up, nl_done, db0,
                   modules, calls, instVars>>

\* the second loop of run (lines 1121-1146), for one port reference of instance
\* i: a reference to an external net is lifted and put on todo_connect. A port
\* reference that get_net_level_up adds to an instance of this netlist is to a
\* net of this netlist, and is passed over if the loop comes to it
ExtScan ==
    /\ pc = "extnets" /\ stack # <<>> /\ Top.loop = "scan"
    /\ LET f == Top
           done == f.i > Len(db[f.nl].insts)
           inst == db[f.nl].insts[f.i]
           left == DOMAIN inst.conn \ f.visited
           port == CHOOSE k \in left : TRUE
           net == inst.conn[port]
           st == [d |-> db, net_level_up |-> net_level_up, portname_cnt |-> portname_cnt]
           r == LiftWhileExternal(st, net, f.nl)
       IN  IF done
           THEN /\ stack' = WithTop([f EXCEPT !.loop = "apply"])
                /\ UNCHANGED <<db, net_level_up, portname_cnt>>
           ELSE IF left = {}
           THEN /\ stack' = WithTop([f EXCEPT !.i = @ + 1, !.visited = {}])
                /\ UNCHANGED <<db, net_level_up, portname_cnt>>
           ELSE IF ~IsExternalTo(net, f.nl)
           THEN /\ stack' = WithTop([f EXCEPT !.visited = @ \cup {port}])
                /\ UNCHANGED <<db, net_level_up, portname_cnt>>
           ELSE /\ stack' = WithTop([f EXCEPT
                                 !.visited = @ \cup {port},
                                 !.todo_connect = Append(@, <<f.i, port, r.net>>)])
                /\ db' = r.st.d
                /\ net_level_up' = r.st.net_level_up
                /\ portname_cnt' = r.st.portname_cnt
    /\ UNCHANGED <<pc, importerVars, nl_done, db0, modules, calls, instVars>>

RECURSIVE Reconnect(_, _, _)
\* the loop of lines 1148-1151: Disconnect(port) and Connect(port, net) for
\* every entry of todo_connect
Reconnect(d, nl, todo) ==
    IF todo = <<>> THEN d
    ELSE Reconnect([d EXCEPT ![nl].insts[Head(todo)[1]].conn[Head(todo)[2]] = Head(todo)[3]],
                   nl, Tail(todo))

\* the end of run: todo_connect is applied and the call returns; when the call
\* on the top netlist returns, the pass goes on to its work loop
ExtApply ==
    /\ pc = "extnets" /\ stack # <<>> /\ Top.loop = "apply"
    /\ db' = Reconnect(db, Top.nl, Top.todo_connect)
    /\ stack' = SubSeq(stack, 1, Len(stack) - 1)
    /\ pc' = IF Len(stack) = 1 THEN "work" ELSE pc
    /\ UNCHANGED <<importerVars, portname_cnt, net_level_up, nl_done, db0, modules,
                   calls, instVars>>

\* ---------------------------------------------------------------- work loop
\* every netlist counts as imported (a mutation of IsDone)
IsDone_Always(nl) == TRUE

\* no netlist counts as imported (the mutation of IsDone)
IsDone_Never(nl) == FALSE

\* nl_done.count(nl) != 0 (line 1422)
IsDone(nl) == nl \in nl_done

\* *nl_todo.begin() (line 1421), as the set of netlists it may give: nl_todo is
\* a std::set of pointers, ordered by the addresses of the netlists, and any
\* element may be the one of least address
TodoBegin(todo) == todo

\* VerificPass::execute, lines 1420-1428, the head of the while loop: a netlist
\* is taken from nl_todo (a std::set of pointers: any of them may be the first)
\* and, unless it is in nl_done, a new importer is made for it
WorkNext ==
    /\ pc = "work" /\ err = "none"
    /\ IF nl_todo = {}
       THEN /\ pc' = "finished"
            /\ UNCHANGED <<netlist, net_map, sva_posedge_map, module, init_nets,
                           anyconst_nets, anyseq_nets, idx, nl_todo, nl_done, modules,
                           calls>>
       ELSE \E nl \in TodoBegin(nl_todo) :
               IF IsDone(nl)
               THEN /\ nl_todo' = nl_todo \ {nl}
                    /\ UNCHANGED <<pc, netlist, net_map, sva_posedge_map, module, init_nets,
                                   anyconst_nets, anyseq_nets, idx, nl_done, modules, calls>>
               ELSE /\ netlist' = nl
                    /\ net_map' = EmptyFcn
                    /\ sva_posedge_map' = EmptyFcn
                    /\ modules' = IF module.name = "" THEN modules
                                  ELSE Append(modules, module)
                    /\ module' = EmptyModule
                    /\ calls' = Append(calls, nl)
                    /\ init_nets' = EmptyFcn
                    /\ anyconst_nets' = {}
                    /\ anyseq_nets' = {}
                    /\ idx' = 1
                    /\ pc' = "begin"
                    /\ UNCHANGED <<nl_todo, nl_done>>
    /\ UNCHANGED <<db, design, mode_gates, mode_keep, autoidx, err, portname_cnt,
                   net_level_up, stack, db0, instVars>>

\* the tail of the loop body (lines 1426-1427), after import_netlist returned
WorkDone ==
    /\ pc \in {"done", "returned"} /\ err = "none"
    /\ nl_todo' = nl_todo \ {netlist}
    /\ nl_done' = nl_done \cup {netlist}
    /\ pc' = "work"
    /\ UNCHANGED <<db, netlist, net_map, sva_posedge_map, module, design, mode_gates,
                   mode_keep, init_nets, anyconst_nets, anyseq_nets, autoidx, idx, err,
                   portname_cnt, net_level_up, stack, db0, modules, calls, instVars>>

\* ---------------------------------------------------------------- memory family
\* the nets an access port is wired to beside the RAM net
MemNets == <<"a", "en", "clk">>

\* an access port of width w on RAM net "mem": a read port reads it through its
\* input, a write port drives it through its output
AccessPort(name, type, w) ==
    IF type = "OPER_READ_PORT"
    THEN [Inst(name, type, "$rd", (<<"input", 0>> :> "mem") @@ (<<"input1", 0>> :> "a"))
             EXCEPT !.in1size = 1, !.outsize = w]
    ELSE IF type \in {"OPER_WRITE_PORT", "OPER_CLOCKED_WRITE_PORT"}
    THEN [Inst(name, type, "$wr",
               (<<"output", 0>> :> "mem") @@ (<<"input1", 0>> :> "a")
               @@ (<<"control", 0>> :> "en") @@ (<<"clock", 0>> :> "clk"))
             EXCEPT !.in1size = 1, !.in2size = w]
    ELSE Inst(name, type, "$buf", (<<"input", 0>> :> "mem") @@ (<<"output", 0>> :> "a"))

\* the kinds of instance attached to the RAM net: the three access ports in
\* every width, and a buffer, which is no access port
AccessKinds ==
    ({"OPER_READ_PORT", "OPER_WRITE_PORT", "OPER_CLOCKED_WRITE_PORT"} \X (1..MaxPortWidth))
    \cup {<<"PRIM_BUF", 1>>}

\* initial-value strings: <size>'b<bits> over 0, 1 and x, and a few that are
\* cut short or carry another radix
WideInits ==
    {<<"4", "'", "b">> \o b : b \in SeqsUpTo({"0", "1", "x"}, MaxInitLen)}
    \cup {<<"4", "'">>, <<"4", "'", "h", "1">>, <<"0", "1">>}

\* a netlist with RAM net "mem" of `bits` bits, the given attached instances
\* and initial value (has = FALSE: none)
MemNetlist(bits, kinds, has, init, range) ==
    Netlist(<<>>, <<>>,
        <<[Net("mem") EXCEPT !.isRam = TRUE, !.size = bits, !.has_wide_init = has,
                             !.wide_init = init, !.left = range[1], !.right = range[2]]>>
        \o [i \in DOMAIN MemNets |-> Net(MemNets[i])],
        <<>>,
        [i \in DOMAIN kinds |-> AccessPort("p" \o ToString(i), kinds[i][1], kinds[i][2])])

\* the state import_netlist is entered in, for data base d and netlist n
ImporterInit(d, n) ==
    /\ db = d
    /\ netlist = n
    /\ net_map = EmptyFcn
    /\ sva_posedge_map = EmptyFcn
    /\ module = EmptyModule
    /\ design = {}
    /\ nl_todo = {n}
    /\ init_nets = EmptyFcn
    /\ anyconst_nets = {}
    /\ anyseq_nets = {}
    /\ autoidx = 1
    /\ pc = "begin"
    /\ idx = 1
    /\ err = "none"
    /\ portname_cnt = 0
    /\ net_level_up = EmptyFcn
    /\ stack = <<>>
    /\ nl_done = {}
    /\ db0 = d
    /\ modules = <<>>
    /\ calls = <<n>>
    /\ warnings = <<>>
    /\ inserted = <<n>>

\* memory family: every net size with every list of attached instances; every
\* net size and port width with every initial value and index direction; and
\* the 64-bit net with two 8-bit ports and initial value 8'b00000001
InitMem ==
    /\ mode_gates = FALSE
    /\ mode_keep = FALSE
    /\ \E nl \in
            {MemNetlist(bits, kinds, FALSE, <<>>, <<0, 1>>) :
                bits \in 1..MaxRamBits, kinds \in SeqsUpTo(AccessKinds, MaxAccessPorts)}
            \cup
            {MemNetlist(bits, <<<<"OPER_READ_PORT", w>>>>, TRUE, init, range) :
                bits \in 1..MaxRamBits, w \in 1..MaxPortWidth, init \in WideInits,
                range \in {<<0, 1>>, <<1, 0>>, <<0, 0>>}}
            \cup
            {MemNetlist(64, <<<<"OPER_READ_PORT", 8>>, <<"OPER_WRITE_PORT", 8>>>>, TRUE,
                        <<"8", "'", "b", "0", "0", "0", "0", "0", "0", "0", "1">>, range) :
                range \in {<<0, 7>>, <<7, 0>>}} :
         ImporterInit("top" :> nl, "top")

NextMem ==
    \/ ImportBegin
    \/ ImportNet
    \/ ImportInitNets
    \/ ImportFreeDrivers
    \/ ImportPosedge
    \/ ImportInstance

SpecMem == InitMem /\ [][NextMem]_vars

\* ---------------------------------------------------------------- translator family
\* the nets of netlist "top": the constant-0 and constant-1 nets and four plain
\* nets; net "x" is a net of netlist "ext", external to "top"
XlateNets ==
    <<[Net("gnd") EXCEPT !.isGnd = TRUE], [Net("pwr") EXCEPT !.isPwr = TRUE],
      Net("a"), Net("b"), Net("c"), Net("q")>>

\* the connections of an operand bus: bit i of `role` on net ns[i + 1]
BusConn(role, ns) == [k \in {<<role, i - 1>> : i \in DOMAIN ns} |-> ns[k[2] + 1]]

\* operand 1 of a word-level operator, in every width
Operands1 == UNION {[1..n -> {"a", "b", "gnd"}] : n \in 1..MaxOperand}

\* a right shift of operand in1 by net c with carry-in cin; bit 0 of the output
\* is on net q, the further bits are unconnected
ShiftRight(in1, cin) ==
    [Inst("u1", "OPER_SHIFT_RIGHT", "shift_right",
          BusConn("input1", in1) @@ (<<"input2", 0>> :> "c") @@ (<<"cin", 0>> :> cin)
          @@ (<<"output", 0>> :> "q"))
        EXCEPT !.in1size = Len(in1), !.in2size = 1, !.outsize = Len(in1)]

\* a less-than comparison of operand in1 with net c
LessThan(in1, cin, signed) ==
    [Inst("u1", "OPER_LESSTHAN", "lessthan",
          BusConn("input1", in1) @@ (<<"input2", 0>> :> "c") @@ (<<"cin", 0>> :> cin)
          @@ (<<"output", 0>> :> "q"))
        EXCEPT !.in1size = Len(in1), !.in2size = 1, !.outsize = 1, !.signed = signed]

\* a single-bit flip-flop with set and reset
Dffrs(d, set, reset) ==
    Inst("u1", "PRIM_DFFRS", "dffrs",
         (<<"clock", 0>> :> "c") @@ (<<"input", 0>> :> d) @@ (<<"output", 0>> :> "q")
         @@ (<<"set", 0>> :> set) @@ (<<"reset", 0>> :> reset))

\* a single-bit latch with set and reset, its gate on net c
Dlatchrs(d, set, reset) ==
    Inst("u1", "PRIM_DLATCHRS", "dlatchrs",
         (<<"control", 0>> :> "c") @@ (<<"input", 0>> :> d) @@ (<<"output", 0>> :> "q")
         @@ (<<"set", 0>> :> set) @@ (<<"reset", 0>> :> reset))

\* the set and reset vectors of a word-level flip-flop, in every width: a bit
\* of the set vector is on ground, on power or on net a, or is unconnected; a
\* bit of the reset vector is on ground or on net b
SetVectors == UNION {[1..n -> {"gnd", "pwr", "a", NULL}] : n \in 1..MaxOperand}
ResetVectors(n) == [1..n -> {"gnd", "b"}]

\* the connections of a port bus whose bit i is on net ns[i + 1], unless that is NULL
PortBusConn(role, ns) ==
    [k \in {<<role, i - 1>> : i \in {j \in DOMAIN ns : ns[j] # NULL}} |-> ns[k[2] + 1]]

\* a word-level flip-flop with set and reset vectors, clocked by net c, every
\* data bit on net a and output bit 0 on net q
WideDffrs(set, reset) ==
    [Inst("u1", "OPER_WIDE_DFFRS", "wide_dffrs",
          (<<"clock", 0>> :> "c") @@ BusConn("input", [i \in DOMAIN set |-> "a"])
          @@ (<<"output", 0>> :> "q")
          @@ PortBusConn("set", set) @@ PortBusConn("reset", reset))
        EXCEPT !.insize = Len(set), !.outsize = Len(set),
               !.buses = [set |-> Len(set), reset |-> Len(reset)]]

\* a two-input gate
Gate2(type, in1, in2, out) ==
    Inst("u1", type, "gate",
         (<<"input1", 0>> :> in1) @@ (<<"input2", 0>> :> in2) @@ (<<"output", 0>> :> out))

\* the instances under translation
XlateInsts ==
    {ShiftRight(in1, cin) : in1 \in Operands1, cin \in {"gnd", "pwr", "a", "b", "x"}}
    \cup {LessThan(in1, cin, sg) : in1 \in Operands1, cin \in {"gnd", "pwr", "a", "x"},
                                   sg \in BOOLEAN}
    \cup {Dffrs(d, set, reset) : d \in {"a", "x"}, set \in {"gnd", "pwr", "a", "x"},
                                 reset \in {"gnd", "pwr", "b", "x"}}
    \cup {Gate2(t, in1, in2, out) : t \in {"PRIM_AND", "PRIM_NAND"}, in1 \in {"a", "x"},
                                    in2 \in {"b", "gnd", "x"}, out \in {"q", "x"}}
    \cup {Dlatchrs("a", set, reset) : set \in {"gnd", "pwr", "a", "x"},
                                       reset \in {"gnd", "b"}}
    \cup UNION {{WideDffrs(set, reset) : reset \in ResetVectors(Len(set))} :
                    set \in SetVectors}

\* netlist "top" holds the instance under translation followed by an inverter
\* from a to b
XlateDb(inst) ==
    ("top" :> Netlist(<<>>, <<>>, XlateNets, <<>>,
                      <<inst, Inst("u2", "PRIM_INV", "inv",
                                   (<<"input", 0>> :> "a") @@ (<<"output", 0>> :> "b"))>>))
    @@ ("ext" :> Netlist(<<>>, <<>>, <<Net("x")>>, <<>>, <<>>))

InitXlate ==
    /\ mode_gates \in BOOLEAN
    /\ mode_keep = FALSE
    /\ \E inst \in XlateInsts : ImporterInit(XlateDb(inst), "top")

NextXlate ==
    \/ ImportBegin
    \/ ImportNet
    \/ ImportInitNets
    \/ ImportFreeDrivers
    \/ ImportPosedge
    \/ ImportInstance

SpecXlate == InitXlate /\ [][NextXlate]_vars

\* ---------------------------------------------------------------- netlist family
\* the single ports a netlist may have: direction and net
PortKinds == {"DIR_IN", "DIR_OUT"} \X {"n0", "n1"}

\* the port buses it may have: none, or bus "pb" over indices 0 and 1 in either
\* direction, its two bits on the given nets
PortBuses ==
    {<<>>} \cup
    {<<[name |-> "pb", left |-> r[1], right |-> r[2], dir |-> r[3],
        elems |-> (0 :> e[1]) @@ (1 :> e[2])]>> :
        r \in {<<0, 1, "DIR_IN">>, <<1, 0, "DIR_OUT">>},
        e \in {<<"n0", "n2">>, <<"n2", "n2">>, <<NULL, "n0">>}}

\* its net bus "nb" over indices 1 down to 0
NetBuses ==
    {<<[name |-> "nb", left |-> 1, right |-> 0, elems |-> (0 :> e[1]) @@ (1 :> e[2])]>> :
        e \in {<<"m0", "m1">>, <<"m0", "m0">>, <<"n1", "m0">>, <<"n1", "n1">>}}

\* net n2 without attributes, or with an initial value and the rand attribute
N2Attrs == {[initial |-> NULL, rand |-> NULL], [initial |-> "1", rand |-> "1"]}

\* a netlist with the given ports and buses; nets n0, n1, n2, m0 (free for every
\* input) and m1, the members of the net bus knowing their bus; an AND gate and
\* a buffer
PlainNetlist(kinds, pbs, nbs, attr) ==
    LET member(n) == \E i \in DOMAIN nbs : \E k \in DOMAIN nbs[i].elems : nbs[i].elems[k] = n
        net(n) == [Net(n) EXCEPT !.bus = IF member(n) THEN "nb" ELSE NULL]
    IN  Netlist([i \in DOMAIN kinds |->
                    [name |-> "p" \o ToString(i), dir |-> kinds[i][1], bus |-> FALSE,
                     net |-> kinds[i][2]]],
                pbs,
                <<net("n0"), net("n1"),
                  [net("n2") EXCEPT !.initial = attr.initial, !.rand = attr.rand],
                  [net("m0") EXCEPT !.rand_const = "1"], net("m1")>>,
                nbs,
                <<Gate2("PRIM_AND", "n0", "n1", "n2"),
                  Inst("u2", "PRIM_BUF", "buf",
                       (<<"input", 0>> :> "n2") @@ (<<"output", 0>> :> "m0"))>>)

Init ==
    /\ mode_gates = FALSE
    /\ mode_keep = FALSE
    /\ \E kinds \in SeqsUpTo(PortKinds, MaxPorts), pbs \in PortBuses, nbs \in NetBuses,
          attr \in N2Attrs :
          ImporterInit("top" :> PlainNetlist(kinds, pbs, nbs, attr), "top")

\* one call of import_netlist, phase by phase
Next ==
    \/ ImportBegin
    \/ ImportPort
    \/ ImportPortBus
    \/ ImportNet
    \/ ImportNetBus
    \/ ImportInitNets
    \/ ImportFreeDrivers
    \/ ImportPosedge
    \/ ImportInstance

Spec == Init /\ [][Next]_vars

\* ---------------------------------------------------------------- port role family
\* the directions of a port or port bus
RoleDirs == {"DIR_IN", "DIR_OUT", "DIR_INOUT"}

\* port bus "pb" in every direction and either index order, its bits on two
\* nets or both on one
RolePortBuses ==
    {<<[name |-> "pb", left |-> r[1], right |-> r[2], dir |-> d,
        elems |-> (0 :> e[1]) @@ (1 :> e[2])]>> :
        r \in {<<0, 1>>, <<1, 0>>}, d \in RoleDirs, e \in {<<"n0", "n2">>, <<"n2", "n2">>}}

\* import_netlist entered for a netlist with port p1 on net n0, port p2 on net
\* n0 or n1, the port bus and a net bus, the ports in every direction
InitRole ==
    /\ mode_gates = FALSE
    /\ mode_keep = FALSE
    /\ \E d1 \in RoleDirs, d2 \in RoleDirs, n \in {"n0", "n1"}, pbs \in RolePortBuses,
          nbs \in NetBuses :
          ImporterInit("top" :> PlainNetlist(<<<<d1, "n0">>, <<d2, n>>>>, pbs, nbs,
                                             [initial |-> NULL, rand |-> NULL]), "top")

SpecRole == InitRole /\ [][Next]_vars

\* ---------------------------------------------------------------- hierarchy family
\* an instance of a user netlist
UserInst(name, view) == Inst(name, "INST", view, EmptyFcn)

\* a buffer from net `from` to net `to`
Buf(from, to) ==
    Inst("g", "PRIM_BUF", "buf", (<<"input", 0>> :> from) @@ (<<"output", 0>> :> to))

\* the three levels of the hierarchy, the net each owns beside its buffer's
\* output net, and the netlist each instantiates
Levels == <<"top", "mid", "leaf">>
LevelNet == [top |-> "t", mid |-> "m", leaf |-> "l"]
LevelChild == [top |-> "mid", mid |-> "leaf", leaf |-> NULL]

\* "top" instantiates "mid" nM times and "mid" instantiates "leaf" nL times;
\* netlist `user` holds a buffer whose input is on net `target`
ExtDb(nM, nL, user, target) ==
    LET sites == [top |-> nM, mid |-> nL, leaf |-> 0]
        level(n) ==
            Netlist(<<>>, <<>>, <<Net(LevelNet[n]), Net(LevelNet[n] \o "q")>>, <<>>,
                [i \in 1..sites[n] |-> UserInst("i" \o ToString(i), LevelChild[n])]
                \o (IF n = user THEN <<Buf(target, LevelNet[n] \o "q")>> ELSE <<>>))
    IN  [n \in Range(Levels) |-> level(n)]

\* VerificPass::execute with -extnets, the top netlist elaborated and on nl_todo
\* (line 1398), the resolver about to run on it (lines 1406-1411)
InitExt ==
    /\ \E nM \in 1..MaxSites, nL \in 1..MaxSites, user \in Range(Levels),
          target \in Range(LevelNet) :
          db = ExtDb(nM, nL, user, target)
    /\ db0 = db
    /\ netlist = NULL
    /\ net_map = EmptyFcn
    /\ sva_posedge_map = EmptyFcn
    /\ module = EmptyModule
    /\ design = {}
    /\ nl_todo = {"top"}
    /\ nl_done = {}
    /\ mode_gates = FALSE
    /\ mode_keep = FALSE
    /\ init_nets = EmptyFcn
    /\ anyconst_nets = {}
    /\ anyseq_nets = {}
    /\ autoidx = 1
    /\ pc = "extnets"
    /\ idx = 1
    /\ err = "none"
    /\ portname_cnt = 0
    /\ net_level_up = EmptyFcn
    /\ stack = <<Frame("top")>>
    /\ modules = <<>>
    /\ calls = <<>>
    /\ warnings = <<>>
    /\ inserted = <<"top">>

NextExt ==
    \/ ExtRecurse
    \/ ExtScan
    \/ ExtApply
    \/ WorkNext
    \/ WorkDone
    \/ ImportBegin
    \/ ImportPort
    \/ ImportNet
    \/ ImportInitNets
    \/ ImportFreeDrivers
    \/ ImportPosedge
    \/ ImportInstance

SpecExt == InitExt /\ [][NextExt]_vars

\* the pass under the scheduling of a sequential program: a step that can be
\* taken is taken
FairSpecExt == SpecExt /\ WF_vars(NextExt)

\* ---------------------------------------------------------------- lifting family
\* the hierarchy with two buffers: buffer k is held by netlist bufs[k][1] and has
\* its input on net bufs[k][2]
LiftDb(nM, nL, bufs) ==
    LET sites == [top |-> nM, mid |-> nL, leaf |-> 0]
        buffers(n) ==
            SelectSeq([k \in DOMAIN bufs |->
                          [Buf(bufs[k][2], LevelNet[n] \o "q") EXCEPT
                              !.name = "g" \o ToString(k), !.view = bufs[k][1]]],
                      LAMBDA b : b.view = n)
        level(n) ==
            Netlist(<<>>, <<>>, <<Net(LevelNet[n]), Net(LevelNet[n] \o "q")>>, <<>>,
                [i \in 1..sites[n] |-> UserInst("i" \o ToString(i), LevelChild[n])]
                \o [k \in DOMAIN buffers(n) |-> [buffers(n)[k] EXCEPT !.view = "buf"]])
    IN  [n \in Range(Levels) |-> level(n)]

\* VerificPass::execute with -extnets on a hierarchy of the lifting family
InitLift ==
    /\ \E nM \in 1..MaxSites, nL \in 1..MaxSites,
          bufs \in [1..2 -> Range(Levels) \X Range(LevelNet)] :
          db = LiftDb(nM, nL, bufs)
    /\ db0 = db
    /\ netlist = NULL
    /\ net_map = EmptyFcn
    /\ sva_posedge_map = EmptyFcn
    /\ module = EmptyModule
    /\ design = {}
    /\ nl_todo = {"top"}
    /\ nl_done = {}
    /\ mode_gates = FALSE
    /\ mode_keep = FALSE
    /\ init_nets = EmptyFcn
    /\ anyconst_nets = {}
    /\ anyseq_nets = {}
    /\ autoidx = 1
    /\ pc = "extnets"
    /\ idx = 1
    /\ err = "none"
    /\ portname_cnt = 0
    /\ net_level_up = EmptyFcn
    /\ stack = <<Frame("top")>>
    /\ modules = <<>>
    /\ calls = <<>>
    /\ warnings = <<>>
    /\ inserted = <<"top">>

SpecLift == InitLift /\ [][NextExt]_vars

\* ---------------------------------------------------------------- AND family
\* the net of port p: of the same name, or of a name of its own
PortNet(p, same) == IF same THEN p ELSE p \o "_n"

\* a netlist of nIn input ports and one output port for each of its two-input
\* AND primitives, each port on its own net; ins[j] names the two input ports
\* AND primitive j is fed from, and the output ports stand before the input
\* ports in the netlist's port list when outsFirst, after them otherwise
AndNetlist(nIn, ins, same, outsFirst) ==
    LET inPort(i) == [name |-> "i" \o ToString(i), dir |-> "DIR_IN", bus |-> FALSE,
                      net |-> PortNet("i" \o ToString(i), same)]
        outPort(j) == [name |-> "o" \o ToString(j), dir |-> "DIR_OUT", bus |-> FALSE,
                       net |-> PortNet("o" \o ToString(j), same)]
        inPorts == [i \in 1..nIn |-> inPort(i)]
        outPorts == [j \in DOMAIN ins |-> outPort(j)]
        ports == IF outsFirst THEN outPorts \o inPorts ELSE inPorts \o outPorts
    IN  Netlist(ports, <<>>, [i \in DOMAIN ports |-> Net(ports[i].net)], <<>>,
            [j \in DOMAIN ins |->
                Inst("g" \o ToString(j), "PRIM_AND", "and",
                     (<<"input1", 0>> :> inPort(ins[j][1]).net)
                     @@ (<<"input2", 0>> :> inPort(ins[j][2]).net)
                     @@ (<<"output", 0>> :> outPort(j).net))])

\* one call of import_netlist, in either mode, for every netlist of the family
InitAnd ==
    /\ mode_gates \in BOOLEAN
    /\ mode_keep = FALSE
    /\ \E nIn \in 1..MaxAndInputs, same \in BOOLEAN, outsFirst \in BOOLEAN :
          \E ins \in SeqsUpTo((1..nIn) \X (1..nIn), MaxAnds) :
             ImporterInit("top" :> AndNetlist(nIn, ins, same, outsFirst), "top")

NextAnd ==
    \/ ImportBegin
    \/ ImportPort
    \/ ImportNet
    \/ ImportInitNets
    \/ ImportFreeDrivers
    \/ ImportPosedge
    \/ ImportInstance

SpecAnd == InitAnd /\ [][NextAnd]_vars

\* ---------------------------------------------------------------- free-net family
\* what a net of the family may be marked with: nothing, the rand_const
\* attribute, the rand attribute, an initial value
Marks == {"none", "const", "seq", "init"}

\* net `name` of bus `bus` with mark m; the mark "both" is both attributes
MarkedNet(name, bus, m) ==
    [Net(name) EXCEPT !.bus = bus,
                      !.rand_const = IF m \in {"const", "both"} THEN "1" ELSE NULL,
                      !.rand = IF m \in {"seq", "both"} THEN "1" ELSE NULL,
                      !.initial = IF m = "init" THEN "1" ELSE NULL]

\* the name of net bus k and of its member at index i
BusName(k) == "b" \o ToString(k)
MemberName(k, i) == BusName(k) \o "_" \o ToString(i)

\* a netlist of nb net buses, the first over indices 1 down to 0 and the others
\* of one bit, member k of the list of all members marked ms[k]; the
\* stand-alone net "s" marked sm, on input port "ps" if mapped; the RAM net "r"
\* of one bit with the rand_const attribute; and a buffer from "s" to net "t"
FreeNetlist(nb, ms, sm, mapped) ==
    LET members == <<<<1, 1>>, <<1, 0>>>> \o [k \in 1..(nb - 1) |-> <<k + 1, 0>>]
        bus(k) == [name |-> BusName(k), left |-> IF k = 1 THEN 1 ELSE 0, right |-> 0,
                   elems |-> IF k = 1
                             THEN (0 :> MemberName(1, 0)) @@ (1 :> MemberName(1, 1))
                             ELSE (0 :> MemberName(k, 0))]
    IN  Netlist(IF mapped
                THEN <<[name |-> "ps", dir |-> "DIR_IN", bus |-> FALSE, net |-> "s"]>>
                ELSE <<>>,
                <<>>,
                [k \in DOMAIN members |->
                    MarkedNet(MemberName(members[k][1], members[k][2]),
                              BusName(members[k][1]), ms[k])]
                \o <<MarkedNet("s", NULL, sm), Net("t"),
                     [Net("r") EXCEPT !.isRam = TRUE, !.size = 1, !.rand_const = "1"]>>,
                [k \in 1..nb |-> bus(k)],
                <<Inst("g", "PRIM_BUF", "buf",
                       (<<"input", 0>> :> "s") @@ (<<"output", 0>> :> "t"))>>)

\* one call of import_netlist for every netlist of the family
InitFree ==
    /\ mode_gates = FALSE
    /\ mode_keep = FALSE
    /\ \E nb \in 1..MaxNetBuses, sm \in Marks \cup {"both"}, mapped \in BOOLEAN :
          \E ms \in [1..(nb + 1) -> Marks] :
             ImporterInit("top" :> FreeNetlist(nb, ms, sm, mapped), "top")

NextFree ==
    \/ ImportBegin
    \/ ImportPort
    \/ ImportNet
    \/ ImportNetBus
    \/ ImportInitNets
    \/ ImportFreeDrivers
    \/ ImportPosedge
    \/ ImportInstance

SpecFree == InitFree /\ [][NextFree]_vars

\* ---------------------------------------------------------------- work-loop family
\* the views an instance of the family may have, with the instance type: the
\* user netlists "A", "B" and "A2" (a second netlist of cell "A"), the operator
\* netlists "op1" and "op2" (two netlists of the operator cell "mux", of a type
\* no translator takes) and the netlist "prim" of a primitive no translator
\* takes
WorkKinds ==
    {<<"INST", "A">>, <<"INST", "B">>, <<"INST", "A2">>, <<"OPER_NTO1MUX", "op1">>,
     <<"OPER_NTO1MUX", "op2">>, <<"PRIM_HDL_ASSERTION", "prim">>}

\* the nets the port of an instance of "top" may be on: its own net "w" and,
\* for the primitive, also net "b" of netlist "B"
WorkSites ==
    {<<k[1], k[2], "w">> : k \in WorkKinds} \cup {<<"PRIM_HDL_ASSERTION", "prim", "b">>}

\* instance number i of a netlist, of type k[1] and view k[2], its port "p" on
\* net k[3]
WorkInst(i, k) == Inst("u" \o ToString(i), k[1], k[2], <<"p", 0>> :> k[3])

\* a netlist of nets ns and instances ks
WorkNetlist(ns, ks) ==
    Netlist(<<>>, <<>>, [i \in DOMAIN ns |-> Net(ns[i])], <<>>,
            [i \in DOMAIN ks |-> WorkInst(i, ks[i])])

\* "top" holds instances of kinds ks; "A" and "A2" hold instances of kinds as
WorkDb(ks, as) ==
    [top |-> WorkNetlist(<<"w">>, ks),
     A |-> WorkNetlist(<<"x">>, as),
     A2 |-> [WorkNetlist(<<"x", "y">>, as) EXCEPT !.owner = "A"],
     B |-> WorkNetlist(<<"b">>, <<>>),
     op1 |-> [WorkNetlist(<<"o">>, <<>>) EXCEPT !.isOperator = TRUE, !.owner = "mux"],
     op2 |-> [WorkNetlist(<<"o", "o2">>, <<>>) EXCEPT !.isOperator = TRUE, !.owner = "mux"],
     prim |-> WorkNetlist(<<"z">>, <<>>)]

\* VerificPass::execute without -extnets and -gates, with and without -k, the
\* top netlist elaborated and on nl_todo (line 1398), the work loop about to
\* start
InitWork ==
    /\ \E ks \in SeqsUpTo(WorkSites, MaxInsts) \ {<<>>},
          as \in {<<>>, <<<<"INST", "B", "x">>>>} :
          db = WorkDb(ks, as)
    /\ db0 = db
    /\ netlist = NULL
    /\ net_map = EmptyFcn
    /\ sva_posedge_map = EmptyFcn
    /\ module = EmptyModule
    /\ design = {}
    /\ nl_todo = {"top"}
    /\ nl_done = {}
    /\ mode_gates = FALSE
    /\ mode_keep \in BOOLEAN
    /\ init_nets = EmptyFcn
    /\ anyconst_nets = {}
    /\ anyseq_nets = {}
    /\ autoidx = 1
    /\ pc = "work"
    /\ idx = 1
    /\ err = "none"
    /\ portname_cnt = 0
    /\ net_level_up = EmptyFcn
    /\ stack = <<>>
    /\ modules = <<>>
    /\ calls = <<>>
    /\ warnings = <<>>
    /\ inserted = <<"top">>

NextWork ==
    \/ WorkNext
    \/ WorkDone
    \/ ImportBegin
    \/ ImportNet
    \/ ImportInitNets
    \/ ImportFreeDrivers
    \/ ImportPosedge
    \/ ImportInstance

SpecWork == InitWork /\ [][NextWork]_vars

\* the work loop under the scheduling of a sequential program: a step that can
\* be taken is taken
FairSpecWork == SpecWork /\ WF_vars(NextWork)

\* ================================================================ claims
\* the smallest element of a non-empty set of numbers
SetMin(S) == CHOOSE x \in S : \A y \in S : x <= y

\* the RAM-backing nets of the netlist under import
RamNets == {n \in Range(db[netlist].nets) : n.isRam}

AccessTypes == {"OPER_READ_PORT", "OPER_WRITE_PORT", "OPER_CLOCKED_WRITE_PORT"}

\* the net an access port accesses, and the width it accesses it with
AccessedNet(inst) == IF inst.type = "OPER_READ_PORT" THEN GetInput(inst) ELSE GetOutput(inst)
AccessWidth(inst) == IF inst.type = "OPER_READ_PORT" THEN inst.outsize ELSE inst.in2size

\* the widths of the access ports attached to a RAM net
PortWidths(net) ==
    {AccessWidth(i) : i \in {j \in Range(db[netlist].insts) :
                                j.type \in AccessTypes /\ AccessedNet(j) = net.name}}

MemCreated(net) == escape_id(net.name) \in DOMAIN module.memories
MemoryOf(net) == module.memories[escape_id(net.name)]

\* C3 as stated: for every RAM-backing net, width * size is the net's bit width
\* and width is the minimum of the attached port widths
C3_AsStated ==
    \A net \in RamNets :
        MemCreated(net) /\ PortWidths(net) # {} =>
            /\ MemoryOf(net).width * MemoryOf(net).size = net.size
            /\ MemoryOf(net).width = SetMin(PortWidths(net))

\* C3 (amended): the memory's width is the minimum of the net's bit width and the
\* widths of all attached access ports, its size is the net's bit width divided
\* by that width and rounded down; so width * size is the net's bit width less
\* the remainder of that division, and equals it exactly when the width divides it
C3_WidthSize ==
    \A net \in RamNets :
        MemCreated(net) =>
            /\ MemoryOf(net).width = SetMin(PortWidths(net) \cup {net.size})
            /\ MemoryOf(net).width * MemoryOf(net).size
                   = net.size - (net.size % MemoryOf(net).width)
            /\ (net.size % MemoryOf(net).width = 0
                   => MemoryOf(net).width * MemoryOf(net).size = net.size)

\* a memory was inferred from two ports of different widths, the narrower of
\* which does not divide the net's bit width
C3_Witness ==
    \E net \in RamNets :
        /\ MemCreated(net)
        /\ Cardinality(PortWidths(net)) = 2
        /\ MemoryOf(net).width = SetMin(PortWidths(net))
        /\ net.size % MemoryOf(net).width # 0

\* the position of the first ' of an initial-value string (Len + 1 if none)
QuoteAt(s) == SetMin({i \in DOMAIN s : s[i] = "'"} \cup {Len(s) + 1})

\* the string has the form <size>'b<bits>
WellFormed(s) == QuoteAt(s) < Len(s) /\ s[QuoteAt(s) + 1] = "b"

\* its characters after the size/radix marker
DataChars(s) == SubSeq(s, QuoteAt(s) + 2, Len(s))

\* the window of word k: characters k*w+1 .. (k+1)*w of the data, as many as exist
Window(s, w, k) == SubSeq(DataChars(s), k * w + 1, Min((k + 1) * w, Len(DataChars(s))))

\* the value a window stands for, bit 0 first: the window's first character is
\* the most significant bit, characters other than 0 and 1 and bits past the end
\* of the string are undefined
WindowValue(win, w) ==
    [j \in 1..w |->
        LET c == IF w - j + 1 <= Len(win) THEN win[w - j + 1] ELSE "x"
        IN  IF c = "0" THEN "S0" ELSE IF c = "1" THEN "S1" ELSE "Sx"]

\* the words that get an initializer record, in increasing order
InitWords(s, w, size) ==
    SelectSeq([k \in 1..size |-> k - 1],
              LAMBDA k : \E i \in DOMAIN Window(s, w, k) : Window(s, w, k)[i] \in {"0", "1"})

MeminitCells(net) ==
    SelectSeq(module.cells,
              LAMBDA c : c.type = "$meminit" /\ c.params.MEMID = escape_id(net.name))

\* C4: the characters after the marker are consumed left to right in windows of
\* `width` characters, one per word; word k gets exactly one initializer record
\* iff its window holds a 0 or a 1; the record's address is k for an ascending
\* index range and size-1-k otherwise, its value the window's; and the 64-bit
\* net with 8-bit ports and 8'b00000001 gives width 8, size 8 and one record, at
\* address 0 (ascending) or 7 (descending), of value 00000001
C4_MeminitDecoding ==
    \A net \in RamNets :
        MemCreated(net) /\ net.has_wide_init /\ WellFormed(net.wide_init) =>
            LET w == MemoryOf(net).width
                size == MemoryOf(net).size
                words == InitWords(net.wide_init, w, size)
                cells == MeminitCells(net)
            IN  /\ Len(cells) = Len(words)
                /\ \A i \in DOMAIN cells :
                      /\ cells[i].ports.ADDR = IF net.left < net.right THEN words[i]
                                               ELSE size - 1 - words[i]
                      /\ cells[i].ports.DATA = WindowValue(Window(net.wide_init, w, words[i]), w)
                      /\ cells[i].params.WIDTH = w
                /\ (net.size = 64 =>
                      /\ w = 8 /\ size = 8 /\ Len(cells) = 1
                      /\ cells[1].ports.ADDR = IF net.left < net.right THEN 0 ELSE 7
                      /\ cells[1].ports.DATA
                            = <<"S1", "S0", "S0", "S0", "S0", "S0", "S0", "S0">>)

\* the 64-bit net with the descending index range was decoded into its one
\* record, at address 7
C4_Witness ==
    \E net \in RamNets :
        /\ MemCreated(net) /\ net.has_wide_init /\ WellFormed(net.wide_init)
        /\ net.size = 64 /\ net.left > net.right
        /\ Len(MeminitCells(net)) = 1
        /\ MeminitCells(net)[1].ports.ADDR = 7

\* the memory an access port accesses
MemoryOfPort(inst) == module.memories[escape_id(AccessedNet(inst))]

HasCell(inst) == \E i \in DOMAIN module.cells : module.cells[i].name = escape_id(inst.name)

\* C5: in the instances phase an access port whose width differs from the width
\* of its memory ends the import with the asymmetric-memory error and gets no
\* cell; an access port that was passed has the memory's width and its cell; so
\* when the import completes all access ports of a memory have the memory's width
C5_AsymmetricMemory ==
    \A i \in DOMAIN db[netlist].insts :
        LET inst == db[netlist].insts[i]
        IN  inst.type \in AccessTypes =>
              /\ (pc = "done" \/ (pc = "insts" /\ i < idx) =>
                    /\ AccessWidth(inst) = MemoryOfPort(inst).width
                    /\ HasCell(inst))
              /\ (pc = "insts" /\ i = idx /\ err # "none" =>
                    /\ err = "asymmetric_memory"
                    /\ AccessWidth(inst) # MemoryOfPort(inst).width
                    /\ ~HasCell(inst))

\* the import ended with the asymmetric-memory error at the second access port,
\* the first having been given its cell
C5_Witness ==
    /\ pc = "insts" /\ idx = 2 /\ err = "asymmetric_memory"
    /\ HasCell(db[netlist].insts[1])
    /\ ~HasCell(db[netlist].insts[2])

\* ---------------------------------------------------------------- translator claims
\* every net of the data base
AllNets == UNION {NetNames(db[n]) : n \in DOMAIN db}

\* the nets an instance is connected to
PinsOf(inst) == {inst.conn[k] : k \in DOMAIN inst.conn}

\* every net the instance is connected to is a net of the netlist under import
Resolvable(inst) == \A n \in PinsOf(inst) : ~IsExternalTo(n, netlist)

\* the instances phase has passed position i / has been ended by an error at it
Processed(i) == pc = "done" \/ (pc = "insts" /\ i < idx)
AbortedAt(i) == pc = "insts" /\ i = idx /\ err # "none"

\* the cells that carry the instance's name
CellsNamed(inst) == SelectSeq(module.cells, LAMBDA c : c.name = escape_id(inst.name))

\* the signal bit the net map holds for a net
BitOf(net) == net_map[net]

\* C1: net_map_at ends the import with the external-reference error whenever the
\* net is not a net of the netlist under import, whether or not the net map has
\* an entry for it; for a net of the netlist it returns the mapped bit and does
\* not raise that error.  A gate with a pin on an external net ends the import
\* with that error at its position and gets no cell; a gate that was passed has
\* only nets of the netlist, and its cell carries their mapped bits
C1_ExternalReference ==
    /\ \A net \in AllNets :
          \A nm \in {net_map, (net :> ConstBit("S1")) @@ net_map} :
              IF IsExternalTo(net, netlist)
              THEN net_map_at(nm, net).err = "external_reference"
              ELSE /\ net_map_at(nm, net).err # "external_reference"
                   /\ (net \in DOMAIN nm =>
                          net_map_at(nm, net) = [err |-> "none", bit |-> nm[net]])
    /\ \A i \in DOMAIN db[netlist].insts :
          LET inst == db[netlist].insts[i]
          IN  /\ (AbortedAt(i) /\ err = "external_reference" => ~Resolvable(inst))
              /\ (inst.type \in {"PRIM_AND", "PRIM_NAND", "PRIM_INV"} =>
                    /\ (AbortedAt(i) =>
                          /\ err = "external_reference"
                          /\ ~Resolvable(inst)
                          /\ CellsNamed(inst) = <<>>)
                    /\ (Processed(i) =>
                          /\ Resolvable(inst)
                          /\ Len(CellsNamed(inst)) = 1
                          /\ CellsNamed(inst)[1].ports.Y = <<BitOf(GetOutput(inst))>>))

\* the import was ended with the external-reference error at a gate whose first
\* input is on the external net, and no cell was added
C1_Witness ==
    /\ pc = "insts" /\ idx = 1 /\ err = "external_reference"
    /\ db[netlist].insts[1].type = "PRIM_AND"
    /\ GetInput1(db[netlist].insts[1]) = "x"
    /\ GetInput2(db[netlist].insts[1]) = "b"
    /\ GetOutput(db[netlist].insts[1]) = "q"
    /\ module.cells = <<>>

\* the most significant bit of operand 1 as the cell receives it
Op1Msb(inst) == LET sig == operatorInput1(inst).sig IN sig[Len(sig)]

\* C6: in cell-level mode a right shift becomes a logical shift ($shr, unsigned)
\* when its carry-in is the ground net, an arithmetic shift ($sshr, signed) when
\* the carry-in is not ground but is the net of operand 1's most significant bit,
\* and in every other wiring the import ends with an error and no shift cell;
\* ground wins when both hold
C6_ShiftRight ==
    \A i \in DOMAIN db[netlist].insts :
        LET inst == db[netlist].insts[i]
            cin == GetCin(inst)
            cells == CellsNamed(inst)
        IN  inst.type = "OPER_SHIFT_RIGHT" /\ ~mode_gates =>
              /\ (Processed(i) =>
                    /\ Len(cells) = 1
                    /\ IF IsGnd(cin)
                       THEN cells[1].type = "$shr" /\ ~cells[1].params.A_SIGNED
                       ELSE /\ BitOf(cin) = Op1Msb(inst)
                            /\ cells[1].type = "$sshr" /\ cells[1].params.A_SIGNED
                    /\ cells[1].ports.A[Len(cells[1].ports.A)] = Op1Msb(inst))
              /\ (AbortedAt(i) =>
                    /\ cells = <<>>
                    /\ (Resolvable(inst) =>
                          /\ err = "unsupported_pattern"
                          /\ ~IsGnd(cin)
                          /\ BitOf(cin) # Op1Msb(inst)))

\* a two-bit right shift whose carry-in is the net of the most significant bit
\* of operand 1, the other bit being on another net, became an arithmetic shift
C6_Witness ==
    /\ pc = "done" /\ ~mode_gates
    /\ db[netlist].insts[1].type = "OPER_SHIFT_RIGHT"
    /\ db[netlist].insts[1].in1size = 2
    /\ GetCin(db[netlist].insts[1]) = "a"
    /\ GetInput1Bit(db[netlist].insts[1], 1) = "b"
    /\ CellsNamed(db[netlist].insts[1])[1].type = "$sshr"

\* C7: in cell-level mode a less-than comparison becomes a strict less-than cell
\* ($lt) when its carry-in is the constant-0 net, a less-or-equal cell ($le) when
\* it is the constant-1 net, and for any other carry-in the import ends with an
\* error and no comparison cell
C7_LessThan ==
    \A i \in DOMAIN db[netlist].insts :
        LET inst == db[netlist].insts[i]
            cin == GetCin(inst)
            cells == CellsNamed(inst)
        IN  inst.type = "OPER_LESSTHAN" /\ ~mode_gates =>
              /\ (Processed(i) =>
                    /\ Len(cells) = 1
                    /\ IsGnd(cin) \/ IsPwr(cin)
                    /\ (IsGnd(cin) => cells[1].type = "$lt")
                    /\ (IsPwr(cin) => cells[1].type = "$le"))
              /\ (AbortedAt(i) =>
                    /\ cells = <<>>
                    /\ (Resolvable(inst) =>
                          /\ err = "unsupported_pattern"
                          /\ ~IsGnd(cin) /\ ~IsPwr(cin)))

\* a comparison with its carry-in on the constant-1 net became a less-or-equal
\* cell
C7_Witness ==
    /\ pc = "done" /\ ~mode_gates
    /\ db[netlist].insts[1].type = "OPER_LESSTHAN"
    /\ IsPwr(GetCin(db[netlist].insts[1]))
    /\ CellsNamed(db[netlist].insts[1])[1].type = "$le"

\* the register kind of a set/reset flip-flop: the cell type, the port its
\* asynchronous control is on and the reset value, per mode
DffrsKind(inst) ==
    LET sg == IsGnd(GetSet(inst))
        rg == IsGnd(GetReset(inst))
    IN  IF sg /\ rg THEN "plain" ELSE IF sg THEN "reset" ELSE IF rg THEN "preset" ELSE "setreset"

\* C8: for a single-bit set/reset flip-flop, in gate-level and in cell-level
\* mode, exactly one register cell is emitted; set and reset both ground: a
\* plain edge register; set ground, reset not: an async-reset register with
\* reset value 0 controlled by the reset net; reset ground, set not: an
\* async-preset register with reset value 1 controlled by the set net; neither
\* ground: a full set/reset register
C8_Dffrs ==
    \A i \in DOMAIN db[netlist].insts :
        LET inst == db[netlist].insts[i]
            cells == CellsNamed(inst)
            c == cells[1]
            kind == DffrsKind(inst)
        IN  inst.type = "PRIM_DFFRS" =>
              /\ (AbortedAt(i) => ~Resolvable(inst) /\ cells = <<>>)
              /\ (Processed(i) =>
                    /\ Len(cells) = 1
                    /\ pc = "done" => Len(module.cells) = Len(db[netlist].insts)
                    /\ IF mode_gates
                       THEN CASE kind = "plain" ->
                                   c.type = "$_DFF_P_" /\ DOMAIN c.ports = {"C", "D", "Q"}
                              [] kind = "reset" ->
                                   /\ c.type = "$_DFF_PP0_" /\ c.params.ARST_VALUE = FALSE
                                   /\ c.ports.R = <<BitOf(GetReset(inst))>>
                              [] kind = "preset" ->
                                   /\ c.type = "$_DFF_PP1_" /\ c.params.ARST_VALUE = TRUE
                                   /\ c.ports.R = <<BitOf(GetSet(inst))>>
                              [] kind = "setreset" ->
                                   /\ c.type = "$_DFFSR_PPP_"
                                   /\ c.ports.S = <<BitOf(GetSet(inst))>>
                                   /\ c.ports.R = <<BitOf(GetReset(inst))>>
                       ELSE CASE kind = "plain" ->
                                   c.type = "$dff" /\ DOMAIN c.ports = {"CLK", "D", "Q"}
                              [] kind = "reset" ->
                                   /\ c.type = "$adff" /\ c.params.ARST_VALUE = "S0"
                                   /\ c.ports.ARST = <<BitOf(GetReset(inst))>>
                              [] kind = "preset" ->
                                   /\ c.type = "$adff" /\ c.params.ARST_VALUE = "S1"
                                   /\ c.ports.ARST = <<BitOf(GetSet(inst))>>
                              [] kind = "setreset" ->
                                   /\ c.type = "$dffsr"
                                   /\ c.ports.SET = <<BitOf(GetSet(inst))>>
                                   /\ c.ports.CLR = <<BitOf(GetReset(inst))>>)

\* in cell-level mode a flip-flop with its reset on ground and its set on
\* another net became an async-preset register controlled by the set net
C8_Witness ==
    /\ pc = "done" /\ ~mode_gates
    /\ db[netlist].insts[1].type = "PRIM_DFFRS"
    /\ DffrsKind(db[netlist].insts[1]) = "preset"
    /\ CellsNamed(db[netlist].insts[1])[1].type = "$adff"
    /\ CellsNamed(db[netlist].insts[1])[1].params.ARST_VALUE = "S1"
    /\ CellsNamed(db[netlist].insts[1])[1].ports.ARST = <<BitOf("a")>>

\* ---------------------------------------------------------------- net map claims
\* a connection between two single bits, in either direction
Connects(c, x, y) == {c.lhs, c.rhs} = {<<x>>, <<y>>}

\* C2: within one import_netlist call an entry of the net map is never
\* overwritten or removed by a later step of any phase, so net_map_at returns
\* the same bit for the net ever after; a single port that meets a mapped net
\* leaves the map as it is and adds one connection between its bit and the
\* mapped bit; and the instances phase leaves the whole map unchanged
C2_NeverOverwritten ==
    [][/\ \A net \in DOMAIN net_map :
              /\ net \in DOMAIN net_map'
              /\ net_map'[net] = net_map[net]
              /\ net_map_at(net_map', net) = net_map_at(net_map, net)
       /\ (pc = "ports" /\ err' = "none" /\ db[netlist].ports[idx].net \in DOMAIN net_map =>
              /\ net_map' = net_map
              /\ Len(module'.conns) = Len(module.conns) + 1
              /\ Connects(module'.conns[Len(module'.conns)],
                          net_map[db[netlist].ports[idx].net],
                          WireBit(escape_id(db[netlist].ports[idx].name), 0)))
       /\ (pc = "insts" => net_map' = net_map)]_vars

\* the import completed for a netlist whose two single ports are on the same
\* net: the net is mapped to the first port's bit and connected to the second's
C2_Witness ==
    /\ pc = "done"
    /\ Len(db[netlist].ports) = 2
    /\ db[netlist].ports[1].net = db[netlist].ports[2].net
    /\ net_map[db[netlist].ports[1].net] = WireBit(escape_id("p1"), 0)
    /\ \E i \in DOMAIN module.conns :
          Connects(module.conns[i], WireBit(escape_id("p1"), 0), WireBit(escape_id("p2"), 0))

\* ---------------------------------------------------------------- resolver claims
\* the netlist that holds the one instance of nl in data base d
ParentOf(d, nl) == (CHOOSE r \in GetReferences(d, nl) : TRUE)[1]

RECURSIVE ManySitesOnLift(_, _, _)
\* netlist nl, or a netlist reached from it while lifting a net upward towards
\* netlist `stop`, has more than one instantiation site
ManySitesOnLift(d, nl, stop) ==
    IF nl = stop THEN FALSE
    ELSE IF NumOfRefs(d, nl) > 1 THEN TRUE
    ELSE IF NumOfRefs(d, nl) = 0 THEN FALSE
    ELSE ManySitesOnLift(d, ParentOf(d, nl), stop)

\* the instance port references of the data base as it was loaded, each as
\* <<netlist, instance position, port>>
PortRefs0 ==
    UNION {UNION {{<<nl, i, k>> : k \in DOMAIN db0[nl].insts[i].conn} :
                     i \in DOMAIN db0[nl].insts} : nl \in DOMAIN db0}

\* the net a port reference was on as loaded, and the net it is on now
Net0(pr) == db0[pr[1]].insts[pr[2]].conn[pr[3]]
NetNow(pr) == db[pr[1]].insts[pr[2]].conn[pr[3]]

\* C9 as stated: after VerificExtNets::run on the top netlist, every instance
\* port reference that was on a net external to its netlist is on a net that is
\* not external to it, unless the netlist owning the net, or one reached while
\* lifting the net upward, has more than one instantiation site
C9_AsStated ==
    pc # "extnets" =>
        \A pr \in PortRefs0 :
            /\ IsExternalIn(db0, Net0(pr), pr[1])
            /\ ~ManySitesOnLift(db0, OwnerIn(db0, Net0(pr)), pr[1])
            => ~IsExternalIn(db, NetNow(pr), pr[1])

\* a port reference of netlist c whose net is owned by c's grandparent, c and
\* its parent being instantiated exactly once
GrandparentRef(pr) ==
    /\ NumOfRefs(db0, pr[1]) = 1
    /\ NumOfRefs(db0, ParentOf(db0, pr[1])) = 1
    /\ OwnerIn(db0, Net0(pr)) = ParentOf(db0, ParentOf(db0, pr[1]))

\* C10 as stated: when an instance of netlist C is on a net owned by C's
\* grandparent and the netlists between are instantiated exactly once, then
\* after the resolver the reference is not external to C, and importing C does
\* not raise the external-reference error
C10_AsStated ==
    \A pr \in PortRefs0 :
        GrandparentRef(pr) =>
            /\ pc # "extnets" => ~IsExternalIn(db, NetNow(pr), pr[1])
            /\ ~(netlist = pr[1] /\ err = "external_reference")

\* ---------------------------------------------------------------- C11
\* the modules the design holds: those of earlier imports and the one of the
\* import under way
DesignModules == modules \o (IF module.name = "" THEN <<>> ELSE <<module>>)

ModulesNamed(name) == SelectSeq(DesignModules, LAMBDA m : m.name = name)

\* the netlists import_netlist was called for and has passed its memo check
Begun == {calls[i] : i \in {j \in DOMAIN calls : j < Len(calls) \/ pc # "begin"}}

\* the first operator netlist of owner name o that import_netlist was called for
FirstCalled(o) ==
    calls[SetMin({i \in DOMAIN calls : db[calls[i]].isOperator /\ OwnerName(calls[i]) = o})]

WireNames(m) == {m.wires[i].name : i \in DOMAIN m.wires}

\* a module built from netlist n and complete
BuiltFrom(m, n) == WireNames(m) = {escape_id(x) : x \in NetNames(db[n])}

\* the import under way is that of an operator netlist whose module name the
\* design already has, and its memo check is about to run
OperatorAgain ==
    /\ pc = "begin" /\ err = "none"
    /\ db[netlist].isOperator
    /\ "$verific$" \o OwnerName(netlist) \in design

\* C11: the operator netlists of one owner name make exactly one module, of the
\* operator-prefixed name, built from the first of them that was imported; the
\* import of a later one returns without error and leaves the design and its
\* modules as they are
C11_OneOperatorModule ==
    /\ [](\A n \in Begun :
            db[n].isOperator =>
                LET name == "$verific$" \o OwnerName(n)
                IN  /\ Len(ModulesNamed(name)) = 1
                    /\ name \in design
                    /\ (pc = "finished" =>
                            BuiltFrom(ModulesNamed(name)[1], FirstCalled(OwnerName(n)))))
    /\ [][OperatorAgain =>
            /\ pc' = "returned" /\ err' = "none"
            /\ design' = design /\ DesignModules' = DesignModules]_vars

\* both operator netlists of cell "mux" have been imported, and the run is over
C11_Witness ==
    /\ pc = "finished" /\ err = "none"
    /\ {"op1", "op2"} \subseteq Range(calls)
    /\ Len(ModulesNamed("$verific$mux")) = 1

\* ---------------------------------------------------------------- C12
\* the instance types with fixed handling in the instance loop (lines 895-1010)
FixedTypes ==
    {"PRIM_SVA_POSEDGE", "PRIM_SVA_AT", "PRIM_SVA_ASSERT", "PRIM_SVA_ASSUME",
     "PRIM_SVA_COVER", "PRIM_PWR", "PRIM_GND", "PRIM_BUF", "PRIM_X", "PRIM_Z",
     "OPER_READ_PORT", "OPER_WRITE_PORT", "OPER_CLOCKED_WRITE_PORT"}

\* the instance the loop is at
ThisInst == db[netlist].insts[idx]

\* the instance loop is at a primitive that neither the fixed handling nor the
\* translator of the mode takes
AtUnsupportedPrimitive ==
    /\ pc = "insts" /\ err = "none"
    /\ IsPrimitive(ThisInst)
    /\ ThisInst.type \notin FixedTypes
    /\ ~(IF mode_gates THEN import_netlist_instance_gates(ThisInst)
         ELSE import_netlist_instance_cells(ThisInst)).handled

\* the signal each port of an instance is connected to, bit by bit (the port
\* references of a port cover its offsets from 0 on)
PortSignals(inst) ==
    LET names == {k[1] : k \in DOMAIN inst.conn}
        byId == [p \in {escape_id(n) : n \in names} |->
                    CHOOSE n \in names : escape_id(n) = p]
    IN  [p \in DOMAIN byId |->
            [i \in 1..Cardinality({k \in DOMAIN inst.conn : k[1] = byId[p]}) |->
                net_map[inst.conn[<<byId[p], i - 1>>]]]]

\* C12: an unsupported primitive ends the run with a fatal error without -k,
\* before a cell is made for it or its view is put on the work set; with -k (and
\* its nets all mapped) a warning is logged, exactly one cell of the
\* primitive's type with its port connections is added, its view is put on the
\* work set, and the loop goes on to the next instance, so that a netlist whose
\* import is over has exactly one cell for each such instance
C12_UnsupportedPrimitive ==
    /\ [][AtUnsupportedPrimitive =>
            IF ~mode_keep
            THEN /\ err' = "unsupported_primitive"
                 /\ module' = module /\ nl_todo' = nl_todo /\ inserted' = inserted
                 /\ warnings' = warnings
            ELSE (\A k \in DOMAIN ThisInst.conn : ThisInst.conn[k] \in DOMAIN net_map) =>
                    /\ err' = "none"
                    /\ warnings' = Append(warnings, <<"unsupported_primitive", ThisInst.name>>)
                    /\ module'.cells =
                          Append(module.cells,
                                 Cell(escape_id(ThisInst.name),
                                      escape_id(OwnerName(ThisInst.view)), EmptyFcn,
                                      PortSignals(ThisInst)))
                    /\ ThisInst.view \in nl_todo'
                    /\ inserted' = Append(inserted, ThisInst.view)
                    /\ IF idx < Len(db[netlist].insts)
                       THEN pc' = "insts" /\ idx' = idx + 1
                       ELSE pc' = "done"]_vars
    /\ [](pc = "done" =>
            \A i \in DOMAIN db[netlist].insts :
                LET inst == db[netlist].insts[i]
                IN  inst.type = "PRIM_HDL_ASSERTION" =>
                        Len(SelectSeq(module.cells,
                                LAMBDA c : c.name = escape_id(inst.name))) = 1)

\* with -k, the import of a netlist is over that has an unsupported primitive
\* followed by another instance, each with its cell, and the warning is logged
C12_Witness ==
    /\ pc = "done" /\ mode_keep /\ netlist = "top"
    /\ Len(db["top"].insts) = 2
    /\ db["top"].insts[1].type = "PRIM_HDL_ASSERTION"
    /\ Len(module.cells) = 2
    /\ module.cells[1].type = "\\prim"
    /\ module.cells[1].ports = ("\\p" :> <<WireBit("\\w", 0)>>)
    /\ warnings # <<>>
    /\ "prim" \in nl_todo

\* ---------------------------------------------------------------- C13
\* the import under way is that of a user netlist whose module name the design
\* already has, and its memo check is about to run
UserAgain ==
    /\ pc = "begin" /\ err = "none"
    /\ ~db[netlist].isOperator
    /\ escape_id(OwnerName(netlist)) \in design

\* C13: the import of a user netlist whose module name the design already has
\* ends the run with the re-definition error, the design and its modules left
\* as they were; after a fatal error nothing more happens
C13_Redefinition ==
    [][/\ UserAgain =>
            /\ err' = "redefinition"
            /\ design' = design /\ DesignModules' = DesignModules
       /\ err # "none" => UNCHANGED vars]_vars

\* the second netlist of cell "A" was taken up after the first had made module
\* \A, and the run has ended with the re-definition error
C13_Witness ==
    /\ err = "redefinition"
    /\ {"A", "A2"} \subseteq Range(calls)
    /\ Len(ModulesNamed("\\A")) = 1

\* ---------------------------------------------------------------- C14
\* how often x occurs in sequence q
Count(q, x) == Cardinality({i \in DOMAIN q : q[i] = x})

\* C14: import_netlist is called at most once for a netlist, however often the
\* netlist is put on the work set, and the design never holds two modules of
\* one name
C14_ImportedOnce ==
    /\ \A n \in DOMAIN db : Count(calls, n) <= 1
    /\ \A i, j \in DOMAIN DesignModules :
          DesignModules[i].name = DesignModules[j].name => i = j

\* netlist "B" was imported, then put on the work set again by an instance
\* found later, and taken off it without a second import
C14_Witness ==
    /\ pc = "finished" /\ err = "none"
    /\ Count(inserted, "B") >= 2
    /\ Count(calls, "B") = 1
    /\ \E i \in DOMAIN calls :
          /\ calls[i] = "B"
          /\ \E j \in DOMAIN calls : j > i /\ calls[j] = "A"
    /\ db["A"].insts # <<>> /\ db["A"].insts[1].view = "B"

\* ---------------------------------------------------------------- C15
\* the wires of the module that have the given name
WiresNamed(name) == SelectSeq(module.wires, LAMBDA w : w.name = name)

\* the cells of the module that are AND operations: the gate of gates mode, the
\* one-bit cell of cells mode
AndCells ==
    SelectSeq(module.cells,
        LAMBDA c : c.type = (IF mode_gates THEN "$_AND_" ELSE "$and"))

\* C15: a net mapped through a port gets no wire in the nets phase: a netlist of
\* one-bit ports, each on its own net, and k two-input AND primitives is
\* imported, in either mode, as a module of exactly one wire for each port and
\* exactly k AND cells (and nothing else), each wired to the ports' wires; two
\* input ports, one output port and one AND primitive give 3 wires and 1 AND
C15_PortsAndAnds ==
    /\ pc \in {"init_nets", "free_drivers", "posedge", "insts", "done"} =>
          /\ Len(module.wires) = Len(db[netlist].ports)
          /\ \A i \in DOMAIN db[netlist].ports :
                Len(WiresNamed(escape_id(db[netlist].ports[i].name))) = 1
    /\ pc = "done" =>
          /\ err = "none"
          /\ Len(AndCells) = Len(db[netlist].insts)
          /\ Len(module.cells) = Len(db[netlist].insts)
          /\ module.conns = <<>>
          /\ \A j \in DOMAIN db[netlist].insts :
                LET inst == db[netlist].insts[j]
                    wire(net) ==
                        LET p == CHOOSE i \in DOMAIN db[netlist].ports :
                                    db[netlist].ports[i].net = net
                        IN  <<WireBit(escape_id(db[netlist].ports[p].name), 0)>>
                IN  /\ AndCells[j].name = escape_id(inst.name)
                    /\ AndCells[j].ports =
                          [A |-> wire(GetInput1(inst)), B |-> wire(GetInput2(inst)),
                           Y |-> wire(GetOutput(inst))]
          /\ (Len(db[netlist].ports) = 3 /\ Len(db[netlist].insts) = 1) =>
                Len(module.wires) = 3 /\ Len(AndCells) = 1

\* two input ports, one output port and one AND primitive fed from both inputs
\* have been imported
C15_Witness ==
    /\ pc = "done" /\ err = "none"
    /\ Len(db[netlist].ports) = 3
    /\ Len(db[netlist].insts) = 1
    /\ GetInput1(db[netlist].insts[1]) # GetInput2(db[netlist].insts[1])
    /\ Len(module.wires) = 3
    /\ Len(AndCells) = 1

\* ---------------------------------------------------------------- C16
\* the work loop has ended: the work set is empty, and import_netlist was called
\* exactly once for every netlist that was ever put on it
AllImportedOnce ==
    /\ nl_todo = {}
    /\ \A n \in Range(inserted) : Count(calls, n) = 1
    /\ \A n \in Range(calls) : n \in Range(inserted)

\* C16: unless a fatal error ends the run, the work loop comes to its end, and
\* at its end the work set is empty and every netlist that was seeded or put on
\* the work set as the view of an untranslated instance has been imported
\* exactly once
C16_Terminates ==
    /\ [](pc = "finished" => AllImportedOnce)
    /\ <>(pc = "finished" \/ err # "none")

\* the loop has ended after importing the top netlist, two netlists found
\* below it and one found below one of those
C16_Witness ==
    /\ pc = "finished" /\ err = "none"
    /\ nl_todo = {}
    /\ Cardinality(Range(calls)) = 4
    /\ Len(calls) = 4

\* ---------------------------------------------------------------- C17
\* the first position of x in sequence q
FirstAt(q, x) == SetMin({i \in DOMAIN q : q[i] = x})

\* C17 as stated: of two netlists, the one put on the work set first is the one
\* whose import starts first
C17_AsStated ==
    \A b \in Range(calls), a \in Range(inserted) :
        FirstAt(inserted, a) < FirstAt(inserted, b) =>
            a \in Range(calls) /\ FirstAt(calls, a) < FirstAt(calls, b)

\* ---------------------------------------------------------------- C18
\* the free-driver cells of module m
FreeCells(m) == SelectSeq(m.cells, LAMBDA c : c.type \in {"$anyconst", "$anyseq"})

\* the init attributes of module m, each with the wire it is set on
InitAttrs(m) ==
    {<<m.wires[i].name, m.wires[i].init>> : i \in {j \in DOMAIN m.wires : m.wires[j].init # <<>>}}

WireNamesOf(m) == {m.wires[i].name : i \in DOMAIN m.wires}

\* net n is mapped to a bit of a wire of module m by net map nm
Wired(m, nm, n) == n \in DOMAIN nm /\ nm[n].wire \in WireNamesOf(m)

\* the nets of the netlist under import that are no RAM nets
PlainNets == {n \in Range(db[netlist].nets) : ~n.isRam}

\* module m has the wire of every port and of every net outside the net buses
SingleWiresMade(m, nm) ==
    /\ \A i \in DOMAIN db[netlist].ports :
          db[netlist].ports[i].bus \/ escape_id(db[netlist].ports[i].name) \in WireNamesOf(m)
    /\ \A n \in PlainNets : n.bus = NULL => Wired(m, nm, n.name)

\* module m has the wire of each of the first k net buses
BusWiresMade(m, nm, k) ==
    \A j \in 1..k : \A n \in Range(db[netlist].netbuses[j].elems) : Wired(m, nm, n)

\* the step sets an init attribute or makes a free-driver cell
AttributesOrDrivers ==
    InitAttrs(module') # InitAttrs(module) \/ FreeCells(module') # FreeCells(module)

\* the number of bits of free-driver cells of the given type that the bit of
\* net n is connected to in module m
DriverBits(m, nm, n, type) ==
    LET driven(i) ==
            \E c \in Range(FreeCells(m)) : c.type = type /\ c.ports.Y = m.conns[i].rhs
    IN  Cardinality(UNION {{<<i, k>> : k \in {j \in DOMAIN m.conns[i].lhs :
                                                /\ driven(i)
                                                /\ n \in DOMAIN nm
                                                /\ m.conns[i].lhs[j] = nm[n]}} :
                           i \in DOMAIN m.conns})

\* every net marked free has its driver in module m
AllFreeDriven(m, nm) ==
    \A n \in PlainNets :
        /\ n.rand_const = "1" => DriverBits(m, nm, n.name, "$anyconst") = 1
        /\ (n.rand = "1" /\ n.rand_const # "1") => DriverBits(m, nm, n.name, "$anyseq") = 1

\* C18 as stated: an init attribute is set and a free-driver cell is made only
\* when the wires of all ports, nets and net buses are made, and no instance is
\* translated before every free driver is made
C18_AsStated ==
    /\ [][AttributesOrDrivers =>
            /\ SingleWiresMade(module', net_map')
            /\ BusWiresMade(module', net_map', Len(db[netlist].netbuses))]_vars
    /\ [][(pc \in {"posedge", "insts"}) => FreeCells(module') = FreeCells(module)]_vars
    /\ [](pc = "insts" => AllFreeDriven(module, net_map))

\* C18, amended: the phases of one import follow each other. The wires of all
\* ports and of all nets outside the net buses are made before any init
\* attribute is set or free-driver cell is made. A net bus gets its wire, then
\* the init attribute of that wire and the free drivers of its members, before
\* the next net bus is taken up: these are set when the wires of the net buses
\* up to this one are made, not those of the later ones. The init attributes
\* and the free drivers of the nets outside the net buses are made when all
\* wires are made. No instance is translated before every free driver is made
C18_PhaseOrder ==
    /\ [][AttributesOrDrivers =>
            /\ SingleWiresMade(module, net_map)
            /\ pc \in {"netbuses", "init_nets", "free_drivers"}
            /\ pc = "netbuses" =>
                  /\ BusWiresMade(module', net_map', idx)
                  /\ \A a \in InitAttrs(module') \ InitAttrs(module) :
                        \A n \in Range(db[netlist].netbuses[idx].elems) :
                            net_map'[n].wire = a[1]
                  /\ \A n \in PlainNets :
                        n.bus # db[netlist].netbuses[idx].name =>
                            \A t \in {"$anyconst", "$anyseq"} :
                                DriverBits(module', net_map', n.name, t)
                                    = DriverBits(module, net_map', n.name, t)
            /\ pc # "netbuses" =>
                  BusWiresMade(module, net_map, Len(db[netlist].netbuses))]_vars
    /\ [][(pc \in {"posedge", "insts"}) => FreeCells(module') = FreeCells(module)]_vars
    /\ [](pc = "insts" => AllFreeDriven(module, net_map))

\* the import is over of a netlist of two net buses, the first with an initial
\* value and a free member, the second with a free member, and of a free net
\* outside the buses
C18_Witness ==
    /\ pc = "done" /\ err = "none"
    /\ Len(db[netlist].netbuses) = 2
    /\ \E n \in PlainNets : n.bus = "b1" /\ n.initial = "1"
    /\ \E n \in PlainNets : n.bus = "b1" /\ n.rand_const = "1"
    /\ \E n \in PlainNets : n.bus = "b2" /\ n.rand = "1"
    /\ \E n \in PlainNets : n.bus = NULL /\ n.rand = "1"
    /\ Len(FreeCells(module)) = 3
    /\ InitAttrs(module) # {}

\* ---------------------------------------------------------------- C19
\* the free-driver cells are fresh: each has an automatic name of its own and
\* an output wire of its own
FreshDrivers ==
    \A i, j \in DOMAIN FreeCells(module) :
        LET c == FreeCells(module)[i]
            d == FreeCells(module)[j]
        IN  /\ \E k \in 1..autoidx : c.name = AutoName(k)
            /\ (c.name = d.name \/ c.ports.Y[1].wire = d.ports.Y[1].wire) => i = j

\* C19: when the import is over, every net that is no RAM net and has the
\* rand_const attribute is connected to exactly one output bit of one fresh
\* $anyconst cell and to no $anyseq cell; every such net with the rand attribute
\* and without rand_const to exactly one output bit of one fresh $anyseq cell
\* and to no $anyconst cell; and a net with neither attribute to no free driver.
\* This holds of the members of net buses and of the nets outside them
C19_FreeDrivers ==
    pc = "done" =>
        /\ FreshDrivers
        /\ \A n \in PlainNets :
              LET ac == DriverBits(module, net_map, n.name, "$anyconst")
                  as == DriverBits(module, net_map, n.name, "$anyseq")
              IN  /\ n.rand_const = "1" => ac = 1 /\ as = 0
                  /\ (n.rand = "1" /\ n.rand_const # "1") => as = 1 /\ ac = 0
                  /\ (n.rand # "1" /\ n.rand_const # "1") => ac = 0 /\ as = 0

\* the import is over of a netlist with a free-constant and a free-input member
\* of one net bus and a stand-alone net that has both attributes
C19_Witness ==
    /\ pc = "done" /\ err = "none"
    /\ \E n \in PlainNets : n.bus = "b1" /\ n.rand_const = "1"
    /\ \E n \in PlainNets : n.bus = "b1" /\ n.rand = "1"
    /\ \E n \in PlainNets : n.bus = NULL /\ n.rand_const = "1" /\ n.rand = "1"
    /\ Len(FreeCells(module)) = 3

\* ---------------------------------------------------------------- C20
\* the port references of the instances of netlist nl in data base d
PortRefsOf(d, nl) == [i \in DOMAIN d[nl].insts |-> d[nl].insts[i].conn]

\* C20 as stated: while run(nl) scans the port references of the instances of
\* nl, no port reference of an instance of nl is added, removed or changed;
\* they change only when the scan is over and todo_connect is applied
C20_AsStated ==
    [][(pc = "extnets" /\ stack # <<>> /\ Top.loop = "scan") =>
            PortRefsOf(db', Top.nl) = PortRefsOf(db, Top.nl)]_vars


\* ---------------------------------------------------------------- C21
\* the state of the resolver, as get_net_level_up takes it
ResolverState == [d |-> db, net_level_up |-> net_level_up, portname_cnt |-> portname_cnt]

\* the netlist that owns the net does not have exactly one instantiation site
NotUnique(d, net) == NumOfRefs(d, OwnerIn(d, net)) # 1

\* the entry a step of the scan loop puts on todo_connect, as a one-element set
Pushed ==
    IF /\ pc = "extnets" /\ stack # <<>> /\ Top.loop = "scan"
       /\ Len(stack') = Len(stack)
       /\ Len(stack'[Len(stack)].todo_connect) = Len(Top.todo_connect) + 1
    THEN {stack'[Len(stack)].todo_connect[Len(Top.todo_connect) + 1]}
    ELSE {}

\* C21: get_net_level_up on a net whose owner does not have exactly one
\* instantiation site returns that net and changes nothing (no port, no net, no
\* connection, memo as it was); the scan loop then puts the reference on
\* todo_connect with the net it was on; when the resolver is over the reference
\* is on the net it was on, external to its netlist; the resolver raises no
\* error and comes to its end
C21_LeftUnresolved ==
    /\ [](pc = "extnets" =>
            \A net \in AllNets :
                NotUnique(db, net) =>
                    get_net_level_up(ResolverState, net) = [st |-> ResolverState, net |-> net])
    /\ [][\A e \in Pushed :
            LET net == db[Top.nl].insts[e[1]].conn[e[2]]
            IN  NotUnique(db, net) =>
                    /\ e[3] = net
                    /\ db' = db
                    /\ net_level_up' = net_level_up
                    /\ portname_cnt' = portname_cnt
                    /\ err' = "none"]_vars
    /\ [](pc # "extnets" =>
            \A pr \in PortRefs0 :
                IsExternalIn(db0, Net0(pr), pr[1]) /\ NotUnique(db0, Net0(pr)) =>
                    /\ NetNow(pr) = Net0(pr)
                    /\ IsExternalIn(db, NetNow(pr), pr[1]))
    /\ [](pc = "extnets" => err = "none")
    /\ <>(pc # "extnets")

\* the resolver is over and a reference to a net of a netlist instantiated at
\* two sites is on that net, external to its netlist
C21_Witness ==
    /\ pc = "work"
    /\ \E pr \in PortRefs0 :
          /\ IsExternalIn(db0, Net0(pr), pr[1])
          /\ NumOfRefs(db0, OwnerIn(db0, Net0(pr))) = 2
          /\ NetNow(pr) = Net0(pr)
          /\ IsExternalIn(db, NetNow(pr), pr[1])

\* ---------------------------------------------------------------- C22
\* C22 as stated: a set/reset latch is reduced as the flip-flop is: set and
\* reset both ground, a plain latch; exactly one of them ground, a latch that is
\* not the full set/reset latch; neither ground, the full set/reset latch
C22_AsStated ==
    \A i \in DOMAIN db[netlist].insts :
        LET inst == db[netlist].insts[i]
            cells == CellsNamed(inst)
            kind == DffrsKind(inst)
        IN  inst.type = "PRIM_DLATCHRS" /\ Processed(i) =>
              /\ Len(cells) = 1
              /\ CASE kind = "plain" -> cells[1].type = "$dlatch"
                   [] kind \in {"reset", "preset"} -> cells[1].type # "$dlatchsr"
                   [] kind = "setreset" -> cells[1].type = "$dlatchsr"

\* C22, amended: in cell-level mode a set/reset latch becomes exactly one cell:
\* set and reset both ground, a plain latch on gate, data and output; in every
\* other case (one of them ground, or neither) the full set/reset latch with
\* its set and reset ports on the set and reset nets
C22_Latch ==
    \A i \in DOMAIN db[netlist].insts :
        LET inst == db[netlist].insts[i]
            cells == CellsNamed(inst)
            c == cells[1]
        IN  inst.type = "PRIM_DLATCHRS" /\ ~mode_gates =>
              /\ (AbortedAt(i) => ~Resolvable(inst) /\ cells = <<>>)
              /\ (Processed(i) =>
                    /\ Len(cells) = 1
                    /\ c.ports.EN = <<BitOf(GetControl(inst))>>
                    /\ c.ports.D = <<BitOf(GetInput(inst))>>
                    /\ c.ports.Q = <<BitOf(GetOutput(inst))>>
                    /\ IF DffrsKind(inst) = "plain"
                       THEN c.type = "$dlatch" /\ DOMAIN c.ports = {"EN", "D", "Q"}
                       ELSE /\ c.type = "$dlatchsr"
                            /\ c.ports.SET = <<BitOf(GetSet(inst))>>
                            /\ c.ports.CLR = <<BitOf(GetReset(inst))>>)

\* a latch whose reset is ground and whose set is not was imported in cell-level
\* mode as a full set/reset latch
C22_Witness ==
    /\ pc = "done" /\ ~mode_gates
    /\ db[netlist].insts[1].type = "PRIM_DLATCHRS"
    /\ DffrsKind(db[netlist].insts[1]) = "preset"
    /\ CellsNamed(db[netlist].insts[1])[1].type = "$dlatchsr"
    /\ CellsNamed(db[netlist].insts[1])[1].ports.SET = <<BitOf("a")>>

\* ---------------------------------------------------------------- C23
\* every bit of port bus `role` of the instance is tied to ground
AllGnd(inst, role) ==
    \A i \in 0..(inst.buses[role] - 1) : Pin(inst, role, i) # NULL /\ IsGnd(Pin(inst, role, i))

\* every bit of port bus `role` is tied to ground or unconnected
AllFalse(inst, role) ==
    \A i \in 0..(inst.buses[role] - 1) : Pin(inst, role, i) = NULL \/ IsGnd(Pin(inst, role, i))

\* the signal the translator is to put on a cell port for port bus `role`
VectorOf(inst, role) ==
    [i \in 1..inst.buses[role] |->
        LET net == Pin(inst, role, i - 1)
        IN  IF net = NULL THEN ConstBit("Sz")
            ELSE IF IsGnd(net) THEN ConstBit("S0")
            ELSE IF IsPwr(net) THEN ConstBit("S1")
            ELSE BitOf(net)]

Translating ==
    /\ pc = "insts" /\ err = "none"
    /\ idx \in DOMAIN db[netlist].insts
    /\ ThisInst.type \notin FixedTypes

\* what the translator of the mode does with the instance the loop is at
XlateResult ==
    IF mode_gates THEN import_netlist_instance_gates(ThisInst)
    ELSE import_netlist_instance_cells(ThisInst)

\* the ports an RTLIL cell of the type has
CellPorts(type) ==
    CASE type \in {"$_AND_", "$and", "$shr", "$sshr", "$lt", "$le"} -> {"A", "B", "Y"}
      [] type \in {"$_NOT_", "$not"} -> {"A", "Y"}
      [] type = "$_DFF_P_" -> {"C", "D", "Q"}
      [] type \in {"$_DFF_PP0_", "$_DFF_PP1_"} -> {"C", "R", "D", "Q"}
      [] type = "$_DFFSR_PPP_" -> {"C", "S", "R", "D", "Q"}
      [] type = "$dff" -> {"CLK", "D", "Q"}
      [] type = "$adff" -> {"CLK", "ARST", "D", "Q"}
      [] type = "$dffsr" -> {"CLK", "SET", "CLR", "D", "Q"}
      [] type = "$dlatch" -> {"EN", "D", "Q"}
      [] type = "$dlatchsr" -> {"EN", "SET", "CLR", "D", "Q"}
      [] OTHER -> {}

\* every port of the cell's type is set on the cell, to a signal every bit of
\* which is a constant or a bit of a wire
AllPortsConnected(c) ==
    /\ CellPorts(c.type) # {}
    /\ DOMAIN c.ports = CellPorts(c.type)
    /\ \A p \in DOMAIN c.ports :
          /\ c.ports[p] # <<>>
          /\ \A k \in DOMAIN c.ports[p] : c.ports[p][k] # NoBit

\* the cells of module m that carry the name of the instance
NamedIn(m, inst) == SelectSeq(m.cells, LAMBDA c : c.name = escape_id(inst.name))

Drives(c, src, dst) == c.lhs = <<dst>> /\ c.rhs = <<src>>

\* the connections the step adds to the module
NewConns == SubSeq(module'.conns, Len(module.conns) + 1, Len(module'.conns))

\* the connection between a new bit of a port of direction dir and the bit its
\* net was mapped to before
RoleConn(c, dir, bit, mapped) ==
    IF dir \in {"DIR_IN", "DIR_INOUT"} THEN Drives(c, bit, mapped) ELSE Drives(c, mapped, bit)

\* the indices of a bus on wire w whose bit did not become the entry of its
\* net: the net was mapped before the bit came to it
Sighting(bus, w) ==
    {i \in Range(BusIndices(bus.left, bus.right)) :
        /\ bus.elems[i] # NULL
        /\ net_map'[bus.elems[i]] # WireBit(w, i - Min(bus.left, bus.right))}

\* C25: a port bit or port-bus bit that comes to a mapped net leaves the net's
\* entry as it is and adds exactly one connection: the new bit drives the mapped
\* bit when the port is an input or inout, the mapped bit drives the new bit
\* when the port is output only; a bit that comes to an unmapped net adds no
\* connection. A bit of a net bus that got a wire and comes to a mapped net is
\* driven by the mapped bit; a net bus all of whose nets are mapped gets no
\* wire and no connection
C25_RoleConnections ==
    [][/\ \A net \in DOMAIN net_map :
              net \in DOMAIN net_map' /\ net_map'[net] = net_map[net]
       /\ (pc = "ports" /\ err = "none" /\ err' = "none" =>
              LET port == db[netlist].ports[idx]
                  bit == WireBit(escape_id(port.name), 0)
              IN  IF port.net \in DOMAIN net_map
                  THEN /\ Len(NewConns) = 1
                       /\ net_map[port.net] # bit
                       /\ RoleConn(NewConns[1], port.dir, bit, net_map[port.net])
                  ELSE NewConns = <<>>)
       /\ (pc = "portbuses" /\ err = "none" /\ err' = "none" =>
              LET bus == db[netlist].portbuses[idx]
                  w == escape_id(bus.name)
                  o == Min(bus.left, bus.right)
                  S == Sighting(bus, w)
              IN  /\ \A i \in Range(BusIndices(bus.left, bus.right)) :
                        bus.elems[i] \in DOMAIN net_map => i \in S
                  /\ Len(NewConns) = Cardinality(S)
                  /\ \A i \in S :
                        Cardinality({k \in DOMAIN NewConns :
                            RoleConn(NewConns[k], bus.dir, WireBit(w, i - o),
                                     net_map'[bus.elems[i]])}) = 1)
       /\ (pc = "netbuses" /\ err = "none" /\ err' = "none" =>
              LET bus == db[netlist].netbuses[idx]
                  o == Min(bus.left, bus.right)
                  is == Range(BusIndices(bus.left, bus.right))
                  found == \E i \in is : bus.elems[i] \notin DOMAIN net_map
                  w == module'.wires[Len(module.wires) + 1].name
              IN  IF found
                  THEN /\ \A i \in is : bus.elems[i] \in DOMAIN net_map => i \in Sighting(bus, w)
                       /\ \A i \in Sighting(bus, w) :
                             /\ Cardinality({k \in DOMAIN NewConns :
                                     WireBit(w, i - o) \in Range(NewConns[k].lhs)
                                     \/ WireBit(w, i - o) \in Range(NewConns[k].rhs)}) = 1
                             /\ \E k \in DOMAIN NewConns :
                                   Drives(NewConns[k], net_map'[bus.elems[i]], WireBit(w, i - o))
                  ELSE /\ Len(module'.wires) = Len(module.wires)
                       /\ NewConns = <<>>)]_vars

\* the import completed for a netlist whose inout port p2 came to net n0, mapped
\* by port p1: bit p2 drives bit p1; and whose port bus pb is output only with
\* both bits on net n2: the bit of the first index drives the other
C25_Witness ==
    /\ pc = "done"
    /\ db[netlist].ports[2].dir = "DIR_INOUT" /\ db[netlist].ports[2].net = "n0"
    /\ db[netlist].portbuses[1].dir = "DIR_OUT"
    /\ db[netlist].portbuses[1].left = 1
    /\ db[netlist].portbuses[1].elems[0] = "n2" /\ db[netlist].portbuses[1].elems[1] = "n2"
    /\ net_map["n0"] = WireBit(escape_id("p1"), 0)
    /\ net_map["n2"] = WireBit(escape_id("pb"), 1)
    /\ \E k \in DOMAIN module.conns :
          Drives(module.conns[k], WireBit(escape_id("p2"), 0), WireBit(escape_id("p1"), 0))
    /\ \E k \in DOMAIN module.conns :
          Drives(module.conns[k], WireBit(escape_id("pb"), 1), WireBit(escape_id("pb"), 0))

\* ---------------------------------------------------------------- C26
\* the ports and nets the resolver has added, each as <<netlist, position>>
SynthPorts ==
    UNION {{<<nl, i>> : i \in (Len(db0[nl].ports) + 1)..Len(db[nl].ports)} : nl \in DOMAIN db}
SynthNets ==
    UNION {{<<nl, i>> : i \in (Len(db0[nl].nets) + 1)..Len(db[nl].nets)} : nl \in DOMAIN db}

PortAt(p) == db[p[1]].ports[p[2]]
NetAt(p) == db[p[1]].nets[p[2]]

\* the added ports that are on the net, and the added nets of the name
PortsFor(net) == {p \in SynthPorts : PortAt(p).net = net}
NetsCalled(name) == {p \in SynthNets : NetAt(p).name = name}

\* C26: at every point of a resolver run, a net that get_net_level_up has lifted
\* has an owner with one instantiation site, exactly one added port, an output
\* port of its owner, and exactly one added net, in the netlist that holds the
\* owner's instance and connected there to the new port; a further call for the
\* net returns that net and changes nothing; a net that was not lifted has no
\* added port; the names of the added ports are pairwise distinct, and so are
\* those of the added nets; and the net a lifted net stands for never changes
C26_OnePortOneNet ==
    /\ [](/\ \A net \in DOMAIN net_level_up :
               LET up == net_level_up[net]
                   owner == Owner(net)
               IN  /\ NumOfRefs(db, owner) = 1
                   /\ Cardinality(PortsFor(net)) = 1
                   /\ \A p \in PortsFor(net) :
                         /\ p[1] = owner
                         /\ PortAt(p).dir = "DIR_OUT"
                         /\ PortAt(p).name = up
                         /\ \A r \in GetReferences(db, owner) :
                               db[r[1]].insts[r[2]].conn[<<up, 0>>] = up
                   /\ Cardinality(NetsCalled(up)) = 1
                   /\ \A p \in NetsCalled(up) : p[1] = ParentOf(db, owner)
                   /\ get_net_level_up(ResolverState, net) = [st |-> ResolverState, net |-> up]
          /\ \A net \in AllNets \ DOMAIN net_level_up : PortsFor(net) = {}
          /\ Cardinality(SynthPorts) = Cardinality(DOMAIN net_level_up)
          /\ Cardinality(SynthNets) = Cardinality(DOMAIN net_level_up)
          /\ Cardinality({PortAt(p).name : p \in SynthPorts}) = Cardinality(SynthPorts)
          /\ Cardinality({NetAt(p).name : p \in SynthNets}) = Cardinality(SynthNets)
          /\ \A p \in SynthPorts : \A q \in SynthNets :
                PortAt(p).name = NetAt(q).name => net_level_up[PortAt(p).net] = NetAt(q).name)
    /\ [][\A net \in DOMAIN net_level_up :
             net \in DOMAIN net_level_up' /\ net_level_up'[net] = net_level_up[net]]_vars

\* the resolver is over; two references of netlist top were on net l of leaf,
\* leaf and mid having one instantiation site each: l was lifted to one net of
\* mid and that net to one net of top, under two names, and both references are
\* on the net of top
C26_Witness ==
    /\ pc = "work"
    /\ portname_cnt = 2
    /\ \E pr1 \in PortRefs0, pr2 \in PortRefs0 :
          /\ pr1 # pr2
          /\ pr1[1] = "top" /\ pr2[1] = "top"
          /\ Net0(pr1) = "l" /\ Net0(pr2) = "l"
          /\ NetNow(pr1) = net_level_up[net_level_up["l"]]
          /\ NetNow(pr2) = net_level_up[net_level_up["l"]]
          /\ net_level_up["l"] # net_level_up[net_level_up["l"]]
          /\ Cardinality(PortsFor("l")) = 1
====
